---- MODULE Spec2Model ----
(***************************************************************************)
(* The per-user notification scheduling engine of romc-mvp-notification:   *)
(* the preference file, the registry of cron tasks (activeJobs), the       *)
(* clear-then-rebuild pass (setupNotifications), its debounce wrapper, the *)
(* restart routine, the daily reset, the commands (refresh, pause, resume, *)
(* stop, admin clear), the menus and buttons (times, timezone, commit) and *)
(* the fired-timer callback (sendNotificationToUser).                      *)
(*                                                                         *)
(* Execution model: one event loop.  Every action below is one synchronous *)
(* run of JavaScript between two suspension points; an awaited file read   *)
(* or write takes effect in the step that resumes the awaiting function.   *)
(***************************************************************************)
EXTENDS Integers, FiniteSets, Sequences, TLC

(***************************************************************************)
(* Bounds of the model.                                                    *)
(***************************************************************************)
\* top-level events (commands, timer firings, daily resets) in one behaviour
MaxOps == 3
\* setupNotifications() executions that can be in progress at once
MaxReconciles == 2
\* cron task objects alive at once
MaxTasks == 5
\* debounce timeouts pending at once
MaxTimeouts == 2
\* minutes between the call of sendNotificationToUser and its read of the clock
MaxDelay == 1
\* entries of NOTIFICATION_TIMES the loop of the testall command goes through
MaxTestAll == 2

Users == {"u1", "u2"}
\* the slot values users of the model select (a subset of the catalog)
Slots == {"18:00", "21:00"}
\* a value that is not in the catalog
UnknownSlot == "25:00"

DEFAULT_TIMEZONE == "Asia/Bangkok"

(***************************************************************************)
(* NOTIFICATION_TIMES: the slot catalog.  earlyWarningCron '55 17 * * *'   *)
(* is kept as its minute and hour fields.                                  *)
(***************************************************************************)
NOTIFICATION_TIMES ==
  << [label |-> "00:00", value |-> "00:00", earlyWarningCron |-> [minute |-> 55, hour |-> 23]],
     [label |-> "01:30", value |-> "01:30", earlyWarningCron |-> [minute |-> 25, hour |-> 1]],
     [label |-> "03:00", value |-> "03:00", earlyWarningCron |-> [minute |-> 55, hour |-> 2]],
     [label |-> "04:30", value |-> "04:30", earlyWarningCron |-> [minute |-> 25, hour |-> 4]],
     [label |-> "06:00", value |-> "06:00", earlyWarningCron |-> [minute |-> 55, hour |-> 5]],
     [label |-> "07:30", value |-> "07:30", earlyWarningCron |-> [minute |-> 25, hour |-> 7]],
     [label |-> "09:00", value |-> "09:00", earlyWarningCron |-> [minute |-> 55, hour |-> 8]],
     [label |-> "10:30", value |-> "10:30", earlyWarningCron |-> [minute |-> 25, hour |-> 10]],
     [label |-> "12:00", value |-> "12:00", earlyWarningCron |-> [minute |-> 55, hour |-> 11]],
     [label |-> "13:30", value |-> "13:30", earlyWarningCron |-> [minute |-> 25, hour |-> 13]],
     [label |-> "15:00", value |-> "15:00", earlyWarningCron |-> [minute |-> 55, hour |-> 14]],
     [label |-> "16:30", value |-> "16:30", earlyWarningCron |-> [minute |-> 25, hour |-> 16]],
     [label |-> "18:00", value |-> "18:00", earlyWarningCron |-> [minute |-> 55, hour |-> 17]],
     [label |-> "19:30", value |-> "19:30", earlyWarningCron |-> [minute |-> 25, hour |-> 19]],
     [label |-> "21:00", value |-> "21:00", earlyWarningCron |-> [minute |-> 55, hour |-> 20]],
     [label |-> "22:30", value |-> "22:30", earlyWarningCron |-> [minute |-> 25, hour |-> 22]] >>

\* NOTIFICATION_TIMES.find(t => t.value === timeValue) finds an entry
TimeInfoFound(timeValue) ==
  \E n \in DOMAIN NOTIFICATION_TIMES : NOTIFICATION_TIMES[n].value = timeValue

\* a catalog whose warnings of the full-hour slots are at minute 55 of the
\* slot's own hour
TimeInfoSameHour(timeValue) ==
  LET timeInfo == NOTIFICATION_TIMES[CHOOSE n \in DOMAIN NOTIFICATION_TIMES :
                                       NOTIFICATION_TIMES[n].value = timeValue]
  IN  [timeInfo EXCEPT !.earlyWarningCron.hour =
         IF timeInfo.earlyWarningCron.minute = 55 THEN (@ + 1) % 24 ELSE @]

\* the NOTIFICATION_TIMES entry with that value
TimeInfo(timeValue) ==
  NOTIFICATION_TIMES[CHOOSE n \in DOMAIN NOTIFICATION_TIMES :
                       NOTIFICATION_TIMES[n].value = timeValue]

\* timeLabel.match(/(\d{2}:\d{2})/) and split(':').map(Number) on the labels
ParseLabel(timeLabel) ==
  (("00:00" :> [hours |-> 0, minutes |-> 0]) @@
  ("01:30" :> [hours |-> 1, minutes |-> 30]) @@
  ("03:00" :> [hours |-> 3, minutes |-> 0]) @@
  ("04:30" :> [hours |-> 4, minutes |-> 30]) @@
  ("06:00" :> [hours |-> 6, minutes |-> 0]) @@
  ("07:30" :> [hours |-> 7, minutes |-> 30]) @@
  ("09:00" :> [hours |-> 9, minutes |-> 0]) @@
  ("10:30" :> [hours |-> 10, minutes |-> 30]) @@
  ("12:00" :> [hours |-> 12, minutes |-> 0]) @@
  ("13:30" :> [hours |-> 13, minutes |-> 30]) @@
  ("15:00" :> [hours |-> 15, minutes |-> 0]) @@
  ("16:30" :> [hours |-> 16, minutes |-> 30]) @@
  ("18:00" :> [hours |-> 18, minutes |-> 0]) @@
  ("19:30" :> [hours |-> 19, minutes |-> 30]) @@
  ("21:00" :> [hours |-> 21, minutes |-> 0]) @@
  ("22:30" :> [hours |-> 22, minutes |-> 30]))[timeLabel]

(***************************************************************************)
(* Time zones: the values of COMMON_TIMEZONES the model uses, with the     *)
(* offset from UTC, in minutes, of their standard time.  A time of day is  *)
(* a number of minutes after midnight.                                     *)
(***************************************************************************)
Timezones == {"Asia/Bangkok", "UTC", "America/New_York"}

UtcOffset(tz) ==
  CASE tz = "Asia/Bangkok" -> 7 * 60
    [] tz = "UTC" -> 0
    [] tz = "America/New_York" -> 0 - 5 * 60

DayMinutes(m) == m % (24 * 60)

\* the wall-clock time in tz at the instant whose UTC time of day is utc
LocalTime(utc, tz) == DayMinutes(utc + UtcOffset(tz))

\* the UTC time of day at which the wall clock of tz shows hours:minutes
UtcTime(hours, minutes, tz) == DayMinutes(hours * 60 + minutes - UtcOffset(tz))

(***************************************************************************)
(* The methods of the object cron.schedule() returns.  The scheduler       *)
(* library is not part of the repository; the handle is the one of the     *)
(* specification's recurring-timer interface: stop(), start(), cancel().   *)
(***************************************************************************)
HandleMethods == {"stop", "start", "cancel"}

VARIABLES
  store,                      \* content of user_preferences.json: userId -> record
  keyOrder,                   \* the keys of the file, in the order Object.entries yields them
  activeJobs,                 \* the registry: job id -> task
  tasks,                      \* the cron tasks that exist (not cancelled): task -> record
  setupNotificationsTimeout,  \* the debounce variable: NullTimeout, FiredTimeout or a pending timeout
  timeouts,                   \* the debounce timeouts pending in the event loop, oldest first
  rc,                         \* the executions of setupNotifications / restartAllCronJobs
  cmd,                        \* per user, the pause / resume / stop command being handled
  notif,                      \* the sendNotificationToUser call in progress
  daily,                      \* the applyAutoPreferences call in progress
  ev,                         \* the step just taken (what returned, what was delivered)
  hist,                       \* what successive completed runs left registered: key -> schedule
  burst,                      \* the current burst of debounced requests
  budget                      \* top-level events still allowed

vars == <<store, keyOrder, activeJobs, tasks, setupNotificationsTimeout, timeouts,
          rc, cmd, notif, daily, ev, hist, burst, budget>>

(***************************************************************************)
(* Values.                                                                 *)
(***************************************************************************)
EmptyMap == [x \in {} |-> 0]
Restrict(f, S) == [x \in S |-> f[x]]

\* tempTimes is absent from a record outside an edit
NoTemp == {"absent"}

NullTimeout == 0
\* a reference to a timeout that has already fired: not null, clearTimeout does nothing
FiredTimeout == -1

TaskIds == 1..MaxTasks
TimeoutIds == 1..MaxTimeouts
RunIds == 1..MaxReconciles

\* `${userId}_${timeValue}_early`
EarlyJobId(userId, timeValue) == <<userId, timeValue>>

\* the record initUserPreferences creates
DefaultPrefs ==
  [times |-> {}, autoApply |-> FALSE, paused |-> FALSE, scheduledJobs |-> {},
   timezone |-> DEFAULT_TIMEZONE, tempTimes |-> NoTemp]

initUserPreferences(userId, userPrefs) ==
  IF userId \in DOMAIN userPrefs THEN userPrefs
  ELSE (userId :> DefaultPrefs) @@ userPrefs

\* Object.keys of a mapping read from a file whose keys are `keys`, after
\* userPrefs[userId] has been assigned: a new key comes last
KeysWith(keys, userId) ==
  IF \E n \in DOMAIN keys : keys[n] = userId THEN keys ELSE Append(keys, userId)

\* the orders in which a file can hold the keys D
KeyOrders(D) ==
  {k \in [1..Cardinality(D) -> D] : \A m, n \in 1..Cardinality(D) : k[m] = k[n] => m = n}

\* Ev: the record of a step
Ev(type, userId, timeValue, userPrefs, flag) ==
  [type |-> type, userId |-> userId, timeValue |-> timeValue, userPrefs |-> userPrefs,
   flag |-> flag]
Step == Ev("step", "", "", EmptyMap, FALSE)

IdleRun ==
  [pc |-> "idle", via |-> "none", keys |-> <<>>, userPrefs |-> EmptyMap, failed |-> "none",
   cancelRaised |-> FALSE]
IdleCmd ==
  [pc |-> "idle", kind |-> "none", keys |-> <<>>, userPrefs |-> EmptyMap, hadJobs |-> FALSE]
IdleNotif ==
  [pc |-> "idle", userId |-> "", timeLabel |-> "", utc |-> 0, timezone |-> "",
   test |-> FALSE]
IdleDaily == [pc |-> "idle", keys |-> <<>>, userPrefs |-> EmptyMap, loaded |-> EmptyMap]
\* no burst of debounced requests is open
NoBurst == [last |-> NullTimeout, ids |-> {}, runs |-> 0]

(***************************************************************************)
(* Exceptions.  TryBlocks gives, for each function that has a try          *)
(* statement, the line of its `try {` and the line of its `} catch`.  A    *)
(* raise is described by the calls in progress, outermost first: a frame   *)
(* is a function and the line it is at (the call it made or, for the last  *)
(* frame, the statement that raises or the await that rejects).  The catch *)
(* that runs is the one of the innermost frame whose line stands in the    *)
(* try block of its function; the functions called by that frame are left, *)
(* the frame itself goes on after its catch.  The entries named ...Const   *)
(* are the functions of src/index.js, the others the ones of part_002.     *)
(***************************************************************************)
TryBlocks ==
  [clearAllActiveJobsConst |-> [first |-> 1766, last |-> 1774],
   setupNotificationsConst |-> [first |-> 2197, last |-> 2281],
   restartAllCronJobsConst |-> [first |-> 2384, last |-> 2398],
   clearAllActiveJobs |-> [first |-> 110, last |-> 118],
   loadUserPreferences |-> [first |-> 206, last |-> 209],
   saveUserPreferences |-> [first |-> 217, last |-> 219],
   sendNotificationToUser |-> [first |-> 241, last |-> 296],
   setupNotifications |-> [first |-> 541, last |-> 625],
   testNotification |-> [first |-> 632, last |-> 643],
   restartAllCronJobs |-> [first |-> 728, last |-> 742]]

\* a source in which the body of setupNotifications is not in a try block
InTryButSetupNotifications(fn, line) ==
  /\ fn # "setupNotifications"
  /\ fn \in DOMAIN TryBlocks
  /\ TryBlocks[fn].first < line /\ line < TryBlocks[fn].last

\* a source in which the body of sendNotificationToUser is not in a try block
InTryButSendNotificationToUser(fn, line) ==
  /\ fn # "sendNotificationToUser"
  /\ fn \in DOMAIN TryBlocks
  /\ TryBlocks[fn].first < line /\ line < TryBlocks[fn].last

\* the line stands in the try block of the function
InTry(fn, line) ==
  /\ fn \in DOMAIN TryBlocks
  /\ TryBlocks[fn].first < line /\ line < TryBlocks[fn].last

Frame(fn, line) == [fn |-> fn, line |-> line]

\* nothing is raised
NoRaise == <<>>

\* the index of the frame whose catch runs; 0 when no frame catches
CatchingFrame(stack) ==
  LET trying == {n \in DOMAIN stack : InTry(stack[n].fn, stack[n].line)}
  IN  IF trying = {} THEN 0 ELSE CHOOSE n \in trying : \A m \in trying : m <= n

\* the function whose catch runs
CaughtIn(stack) ==
  IF CatchingFrame(stack) = 0 THEN "none" ELSE stack[CatchingFrame(stack)].fn

\* what the caller of the k-th frame observes: the call returns when nothing
\* is raised or the catch of that frame, or of a function it called, runs
Outcome(stack, k) ==
  IF stack = NoRaise \/ CatchingFrame(stack) >= k THEN "returned" ELSE "raised"

\* the raises of the model, as the calls in progress, outermost first:
\* job.cancel() in the loop of clearAllActiveJobs; readFile or JSON.parse in
\* loadUserPreferences; cron.schedule in the forEach of setupNotifications;
\* writeFile in saveUserPreferences; the awaits of client.channels.fetch and of
\* channel.send in sendNotificationToUser; in src/index.js, the assignment to
\* the constant activeJobs, reached from setupNotifications and from
\* restartAllCronJobs
Raise ==
  [cancel |-> <<Frame("setupNotifications", 543), Frame("clearAllActiveJobs", 112)>>,
   load |-> <<Frame("setupNotifications", 545), Frame("loadUserPreferences", 207)>>,
   schedule |-> <<Frame("setupNotifications", 589)>>,
   save |-> <<Frame("setupNotifications", 624), Frame("saveUserPreferences", 218)>>,
   fetch |-> <<Frame("sendNotificationToUser", 257)>>,
   send |-> <<Frame("sendNotificationToUser", 289)>>,
   clear |-> <<Frame("setupNotificationsConst", 2199),
               Frame("clearAllActiveJobsConst", 1780)>>,
   restartClear |-> <<Frame("restartAllCronJobsConst", 2388),
                      Frame("clearAllActiveJobsConst", 1780)>>]

(***************************************************************************)
(* clearAllActiveJobs: every registered job is cancelled (or destroyed     *)
(* when it has no cancel), then every key is deleted.  The operator gives  *)
(* the tasks left alive; the registry is EmptyMap afterwards.  A job whose *)
(* cancel raises (caught and logged, lines 118-120) stays alive.           *)
(***************************************************************************)
JobCancelled(aj, tk, t) ==
  /\ \E jobId \in DOMAIN aj : aj[jobId] = t
  /\ ("cancel" \in HandleMethods \/ "destroy" \in HandleMethods)
  /\ ~tk[t].throws

\* the jobs on which clearAllActiveJobs calls cancel or destroy
CancelAttempted(aj) ==
  IF "cancel" \in HandleMethods \/ "destroy" \in HandleMethods
  THEN {aj[jobId] : jobId \in DOMAIN aj} ELSE {}

\* a clearAllActiveJobs that deletes the keys without cancelling the jobs
clearAllActiveJobsKeysOnly(aj, tk) == tk

clearAllActiveJobs(aj, tk) ==
  Restrict(tk, {t \in DOMAIN tk : ~JobCancelled(aj, tk, t)})

(***************************************************************************)
(* setupNotificationsDebounced: clearTimeout of the referenced timeout     *)
(* when the variable is not null, then a new timeout, stored in the        *)
(* variable.  Gives the new <<variable, pending timeouts>>.                *)
(***************************************************************************)
PendingIds(pending) == {pending[n].id : n \in DOMAIN pending}

NewTimeout(pending) == CHOOSE t \in TimeoutIds \ PendingIds(pending) :
                          \A o \in TimeoutIds \ PendingIds(pending) : t <= o

\* clearTimeout(ref): the referenced timeout, when still pending, never fires
ClearTimeout(ref, pending) == SelectSeq(pending, LAMBDA x : x.id # ref)

\* what the `if (setupNotificationsTimeout) clearTimeout(...)` leaves pending
AfterClear(ref, pending) ==
  IF ref # NullTimeout THEN ClearTimeout(ref, pending) ELSE pending

\* a debounce whose new timeout is due at once
setupNotificationsDebouncedDue(ref, pending) ==
  <<NewTimeout(AfterClear(ref, pending)),
    Append(AfterClear(ref, pending),
           [id |-> NewTimeout(AfterClear(ref, pending)), due |-> TRUE])>>

\* a debounce whose new timeout is stored in the variable and never set
setupNotificationsDebouncedNoTimer(ref, pending) ==
  <<NewTimeout(AfterClear(ref, pending)), AfterClear(ref, pending)>>

\* setTimeout(callback, 100): the new timeout is not due before the delay has elapsed
setupNotificationsDebounced(ref, pending) ==
  LET t == NewTimeout(AfterClear(ref, pending))
  IN  <<t, Append(AfterClear(ref, pending), [id |-> t, due |-> FALSE])>>

CanDebounce(ref, pending) == PendingIds(AfterClear(ref, pending)) # TimeoutIds

\* the burst after a request that created timeout t: the request belongs to the
\* open burst when the timeout of the previous request is pending and not yet due
BurstAfterRequest(b, pendingBefore, pendingAfter, t) ==
  LET within == \E n \in DOMAIN pendingBefore :
                  pendingBefore[n].id = b.last /\ ~pendingBefore[n].due
  IN  IF within
      THEN [last |-> t, ids |-> (b.ids \cap PendingIds(pendingAfter)) \cup {t},
            runs |-> b.runs]
      ELSE [last |-> t, ids |-> {t}, runs |-> 0]

\* the burst after timeout t has fired and entered setupNotifications()
BurstAfterFire(b, t) ==
  IF t \in b.ids
  THEN [last |-> IF b.last = t THEN NullTimeout ELSE b.last,
        ids |-> b.ids \ {t}, runs |-> b.runs + 1]
  ELSE b

(***************************************************************************)
(* The rebuild loop of setupNotifications (lines 556-618): for every user  *)
(* with times, scheduledJobs is reset and each known time gets a new task, *)
(* stopped at once when the user is paused, pushed to scheduledJobs and    *)
(* stored in the registry under its job id.                                *)
(***************************************************************************)
HasTimes(userPrefs, userId) ==
  userId \in DOMAIN userPrefs /\ userPrefs[userId].times # {}

\* a userTimezone that ignores prefs.timezone
UserTimezoneDefaultOnly(prefs) == DEFAULT_TIMEZONE

\* prefs.timezone || DEFAULT_TIMEZONE
UserTimezone(prefs) == IF prefs.timezone = "" THEN DEFAULT_TIMEZONE ELSE prefs.timezone

\* a loop that gives up a user's record when one of its times is unknown
ScheduledTimesKnownOnly(userPrefs, userId) ==
  IF \A timeValue \in userPrefs[userId].times : TimeInfoFound(timeValue)
  THEN userPrefs[userId].times ELSE {}

\* the times of a user for which a task is created (timeInfo found)
ScheduledTimes(userPrefs, userId) ==
  {timeValue \in userPrefs[userId].times : TimeInfoFound(timeValue)}

\* cron.schedule raises for this user: the timezone option is not a time zone
Raises(userPrefs, userId) ==
  /\ HasTimes(userPrefs, userId)
  /\ ScheduledTimes(userPrefs, userId) # {}
  /\ UserTimezone(userPrefs[userId]) \notin Timezones

ScheduleRaises(userPrefs) == \E u \in DOMAIN userPrefs : Raises(userPrefs, u)

\* the users Object.entries(userPrefs) yields before the first whose
\* cron.schedule raises; keys is Object.keys(userPrefs)
UsersBeforeRaise(userPrefs, keys) ==
  {keys[n] : n \in {m \in DOMAIN keys :
                      \A k \in 1..m : ~Raises(userPrefs, keys[k])}}

\* the job ids the loop registers
JobsToSchedule(userPrefs) ==
  UNION {{EarlyJobId(u, s) : s \in ScheduledTimes(userPrefs, u)} :
           u \in {x \in DOMAIN userPrefs : HasTimes(userPrefs, x)}}

NewTask(tk) == CHOOSE t \in TaskIds \ DOMAIN tk : \A o \in TaskIds \ DOMAIN tk : t <= o

\* cron.schedule(originalCron, callback, {scheduled: true, timezone: userTimezone}),
\* then earlyWarningJob.stop() when prefs.paused
ScheduledJob(userPrefs, jobId) ==
  [userId |-> jobId[1], timeValue |-> jobId[2],
   cron |-> TimeInfo(jobId[2]).earlyWarningCron, throws |-> FALSE,
   timezone |-> UserTimezone(userPrefs[jobId[1]]),
   running |-> ~userPrefs[jobId[1]].paused]

RECURSIVE ScheduleJobs(_, _, _)
ScheduleJobs(todo, userPrefs, st) ==
  IF todo = {} THEN st
  ELSE LET jobId == CHOOSE x \in todo : TRUE
           t == NewTask(st.tk)
       IN  ScheduleJobs(todo \ {jobId}, userPrefs,
                        [aj |-> (jobId :> t) @@ st.aj,
                         tk |-> (t :> ScheduledJob(userPrefs, jobId)) @@ st.tk])

\* a loop that also drops the tempTimes of the users it schedules
RebuiltPrefsDropsTemp(userPrefs) ==
  [u \in DOMAIN userPrefs |->
     IF HasTimes(userPrefs, u)
     THEN [userPrefs[u] EXCEPT
             !.scheduledJobs = {EarlyJobId(u, s) : s \in ScheduledTimes(userPrefs, u)},
             !.tempTimes = NoTemp]
     ELSE userPrefs[u]]

\* a loop that resets scheduledJobs of every user, with times or not
RebuiltPrefsEveryUser(userPrefs) ==
  [u \in DOMAIN userPrefs |->
     [userPrefs[u] EXCEPT
        !.scheduledJobs = {EarlyJobId(u, s) : s \in ScheduledTimes(userPrefs, u)}]]

\* the mapping the loop leaves in userPrefs: scheduledJobs rebuilt for users with times
RebuiltPrefs(userPrefs) ==
  [u \in DOMAIN userPrefs |->
     IF HasTimes(userPrefs, u)
     THEN [userPrefs[u] EXCEPT
             !.scheduledJobs = {EarlyJobId(u, s) : s \in ScheduledTimes(userPrefs, u)}]
     ELSE userPrefs[u]]

\* userPrefs[userId]?.timezone || DEFAULT_TIMEZONE
PrefsTimezone(userPrefs, userId) ==
  IF userId \in DOMAIN userPrefs THEN UserTimezone(userPrefs[userId])
  ELSE DEFAULT_TIMEZONE

\* the instant a task fires: its cron hour and minute on the wall clock of its timezone
FireTime(task) == UtcTime(task.cron.hour, task.cron.minute, task.timezone)

(***************************************************************************)
(* Task operations used by the commands.                                   *)
(***************************************************************************)
\* a command that changes the paused flag and leaves the jobs alone
SetRunningFlagOnly(aj, tk, jobIds, on) == tk

\* job.stop() / job.start() on the registered jobs among jobIds that have the method
SetRunning(aj, tk, jobIds, on) ==
  [t \in DOMAIN tk |->
     IF /\ \E j \in jobIds \cap DOMAIN aj : aj[j] = t
        /\ (IF on THEN "start" ELSE "stop") \in HandleMethods
     THEN [tk[t] EXCEPT !.running = on]
     ELSE tk[t]]

\* the stop command's loop: job.cancel() and delete activeJobs[jobId] when the
\* registered job has a cancel method
CancelledKeys(aj, jobIds) ==
  IF "cancel" \in HandleMethods THEN jobIds \cap DOMAIN aj ELSE {}

CancelJobs(aj, tk, jobIds) ==
  [aj |-> Restrict(aj, DOMAIN aj \ CancelledKeys(aj, jobIds)),
   tk |-> Restrict(tk, DOMAIN tk \ {aj[j] : j \in CancelledKeys(aj, jobIds)})]

(***************************************************************************)
(* applyAutoPreferences, lines 701-714: the mapping after the loop and     *)
(* whether the loop set `updated`.                                         *)
(***************************************************************************)
KeepsTimes(prefs) == prefs.autoApply /\ prefs.times # {}

\* an applyAutoPreferences loop that does not restore wasPaused after the reset
AutoAppliedPrefsPausedLost(userPrefs) ==
  [u \in DOMAIN userPrefs |->
     IF KeepsTimes(userPrefs[u]) THEN userPrefs[u]
     ELSE IF userPrefs[u].times # {}
          THEN [userPrefs[u] EXCEPT !.times = {}, !.paused = FALSE]
          ELSE userPrefs[u]]

\* an applyAutoPreferences loop that resets nobody
AutoAppliedPrefsNoReset(userPrefs) == userPrefs

AutoAppliedPrefs(userPrefs) ==
  [u \in DOMAIN userPrefs |->
     IF KeepsTimes(userPrefs[u]) THEN userPrefs[u]
     ELSE [userPrefs[u] EXCEPT !.times = {}]]

AutoApplyUpdated(userPrefs) ==
  \E u \in DOMAIN userPrefs : userPrefs[u].times # {}

(***************************************************************************)
(* Initial state: the process has just started; the file holds what an     *)
(* earlier run left: any users, each with any selection of slots.          *)
(***************************************************************************)
StoredPrefs(u) ==
  {[times |-> ts, autoApply |-> a, paused |-> p,
    scheduledJobs |-> {EarlyJobId(u, s) : s \in ts},
    timezone |-> DEFAULT_TIMEZONE, tempTimes |-> NoTemp] :
     ts \in SUBSET Slots, a \in BOOLEAN, p \in BOOLEAN}

InitialStores ==
  UNION {[D -> UNION {StoredPrefs(u) : u \in D}] : D \in SUBSET Users}

WellFormed(m) == \A u \in DOMAIN m : m[u] \in StoredPrefs(u)

Init ==
  /\ store \in {m \in InitialStores : WellFormed(m)}
  /\ keyOrder \in KeyOrders(DOMAIN store)
  /\ activeJobs = EmptyMap
  /\ tasks = EmptyMap
  /\ setupNotificationsTimeout = NullTimeout
  /\ timeouts = <<>>
  /\ rc = [i \in RunIds |-> IdleRun]
  /\ cmd = [u \in Users |-> IdleCmd]
  /\ notif = IdleNotif
  /\ daily = IdleDaily
  /\ ev = Step
  /\ hist = <<>>
  /\ burst = NoBurst
  /\ budget = MaxOps

(***************************************************************************)
(* setupNotifications, lines 540-628.                                      *)
(***************************************************************************)
InProgress(i) == rc[i].pc \in {"load", "save"}
FreeRun(i) == rc[i].pc = "idle" /\ \A o \in RunIds : rc[o].pc = "idle" => i <= o

\* entry: clearAllActiveJobs(), then the await of loadUserPreferences()
EnterSetupNotifications(i, via) ==
  /\ tasks' = clearAllActiveJobs(activeJobs, tasks)
  /\ activeJobs' = EmptyMap
  /\ rc' = [rc EXCEPT ![i] = [pc |-> "load", via |-> via, keys |-> <<>>,
                              userPrefs |-> EmptyMap, failed |-> "none",
                              cancelRaised |-> FALSE]]

\* the `reload` command (line 1522) and the ready event (line 756) call
\* setupNotifications() directly
Reload(i) ==
  /\ budget > 0
  /\ FreeRun(i)
  /\ EnterSetupNotifications(i, "direct")
  /\ budget' = budget - 1
  /\ ev' = Step
  /\ UNCHANGED <<store, keyOrder, setupNotificationsTimeout, timeouts, cmd, notif, daily, burst, hist>>

\* the file is read; the loop runs on what was read; saveUserPreferences is awaited
SetupNotificationsLoaded(i) ==
  /\ rc[i].pc = "load"
  /\ LET userPrefs == store
         todo == JobsToSchedule(userPrefs)
         st == ScheduleJobs(todo, userPrefs, [aj |-> activeJobs, tk |-> tasks])
     IN  /\ ~ScheduleRaises(userPrefs)
         /\ Cardinality(DOMAIN tasks) + Cardinality(todo) <= MaxTasks
         /\ activeJobs' = st.aj
         /\ tasks' = st.tk
         /\ rc' = [rc EXCEPT ![i] = [pc |-> "save", via |-> rc[i].via,
                                     keys |-> keyOrder,
                                     userPrefs |-> RebuiltPrefs(userPrefs),
                                     failed |-> "none",
                                     cancelRaised |-> rc[i].cancelRaised]]
  /\ ev' = Step
  /\ UNCHANGED <<store, keyOrder, setupNotificationsTimeout, timeouts, cmd, notif, daily, burst,
                 budget, hist>>

\* what the registry holds: under each key, the timezone of the task and the
\* instant it fires
Registry(aj, tk) ==
  [jobId \in DOMAIN aj |->
     [timezone |-> tk[aj[jobId]].timezone, utc |-> FireTime(tk[aj[jobId]])]]

\* the file is written and setupNotifications returns; the debounce callback
\* then sets setupNotificationsTimeout = null
SetupNotificationsSaved(i) ==
  /\ rc[i].pc = "save"
  /\ rc[i].failed = "none"
  /\ store' = rc[i].userPrefs
  /\ keyOrder' = rc[i].keys
  /\ setupNotificationsTimeout' =
       IF rc[i].via = "debounce" THEN NullTimeout ELSE setupNotificationsTimeout
  /\ rc' = [rc EXCEPT ![i] = IdleRun]
  /\ ev' = Ev("setupNotificationsReturned", "", "", rc[i].userPrefs, FALSE)
  /\ hist' = Append(hist, Registry(activeJobs, tasks))
  /\ UNCHANGED <<activeJobs, tasks, timeouts, cmd, notif, daily, burst, budget>>

(***************************************************************************)
(* The debounce, lines 129-140.                                            *)
(***************************************************************************)
\* a call of setupNotificationsDebounced()
RequestDebounced ==
  /\ CanDebounce(setupNotificationsTimeout, timeouts)
  /\ LET d == setupNotificationsDebounced(setupNotificationsTimeout, timeouts)
     IN  /\ setupNotificationsTimeout' = d[1]
         /\ timeouts' = d[2]
         /\ burst' = BurstAfterRequest(burst, timeouts, d[2], d[1])

\* the `refresh` command: the file is read; a user whose record read has no
\* times gets the reply of line 1552 and the handler returns, changing nothing
\* (no step); for a user with times message.reply is called and awaited
RefreshLoaded(u) ==
  /\ budget > 0
  /\ cmd[u].pc = "idle"
  /\ HasTimes(store, u)
  /\ cmd' = [cmd EXCEPT ![u] = [IdleCmd EXCEPT !.pc = "reply", !.kind = "refresh"]]
  /\ budget' = budget - 1
  /\ ev' = Step
  /\ UNCHANGED <<store, keyOrder, activeJobs, tasks, setupNotificationsTimeout, timeouts,
                 rc, notif, daily, burst, hist>>

\* refresh: the reply is sent; setupNotificationsDebounced() is called, whatever
\* the file holds by now
RefreshReplied(u) ==
  /\ cmd[u].pc = "reply" /\ cmd[u].kind = "refresh"
  /\ RequestDebounced
  /\ cmd' = [cmd EXCEPT ![u] = IdleCmd]
  /\ ev' = Step
  /\ UNCHANGED <<store, keyOrder, activeJobs, tasks, rc, notif, daily, budget, hist>>

\* 100 ms have passed since the oldest timeout not yet due was set
QuietIntervalElapsed ==
  /\ \E n \in DOMAIN timeouts :
       /\ ~timeouts[n].due
       /\ \A m \in 1..(n - 1) : timeouts[m].due
       /\ timeouts' = [timeouts EXCEPT ![n].due = TRUE]
  /\ ev' = Step
  /\ UNCHANGED <<store, keyOrder, activeJobs, tasks, setupNotificationsTimeout, rc, cmd, notif,
                 daily, burst, budget, hist>>

\* the oldest timeout is due and fires: its callback enters setupNotifications()
TimeoutFires(i) ==
  /\ timeouts # <<>>
  /\ timeouts[1].due
  /\ FreeRun(i)
  /\ timeouts' = Tail(timeouts)
  /\ setupNotificationsTimeout' =
       IF setupNotificationsTimeout = timeouts[1].id THEN FiredTimeout
       ELSE setupNotificationsTimeout
  /\ burst' = BurstAfterFire(burst, timeouts[1].id)
  /\ EnterSetupNotifications(i, "debounce")
  /\ ev' = Step
  /\ UNCHANGED <<store, keyOrder, cmd, notif, daily, budget, hist>>

(***************************************************************************)
(* restartAllCronJobs, lines 727-746.                                      *)
(***************************************************************************)
RestartAllCronJobs(i) ==
  /\ budget > 0
  /\ FreeRun(i)
  /\ tasks' = clearAllActiveJobs(activeJobs, tasks)
  /\ activeJobs' = EmptyMap
  /\ rc' = [rc EXCEPT ![i] = [pc |-> "grace", via |-> "restart", keys |-> <<>>,
                              userPrefs |-> EmptyMap, failed |-> "none",
                              cancelRaised |-> FALSE]]
  /\ budget' = budget - 1
  /\ ev' = Step
  /\ UNCHANGED <<store, keyOrder, setupNotificationsTimeout, timeouts, cmd, notif, daily, burst, hist>>

\* the 200 ms wait is over: setupNotifications() is called directly
RestartGraceOver(i) ==
  /\ rc[i].pc = "grace"
  /\ EnterSetupNotifications(i, "restart")
  /\ ev' = Step
  /\ UNCHANGED <<store, keyOrder, setupNotificationsTimeout, timeouts, cmd, notif, daily, burst,
                 budget, hist>>

(***************************************************************************)
(* The pause, resume and stop commands, lines 1593-1705.                   *)
(***************************************************************************)
\* the user has a job in the registry
HasJobs(u) == \E jobId \in DOMAIN activeJobs : jobId[1] = u

\* pause: load, paused = true, await save
PauseLoaded(u) ==
  /\ budget > 0
  /\ cmd[u].pc = "idle"
  /\ LET userPrefs == initUserPreferences(u, store)
     IN  /\ userPrefs[u].times # {}
         /\ cmd' = [cmd EXCEPT ![u] =
                      [pc |-> "save", kind |-> "pause",
                       keys |-> KeysWith(keyOrder, u),
                       userPrefs |-> [userPrefs EXCEPT ![u].paused = TRUE],
                       hadJobs |-> HasJobs(u)]]
  /\ budget' = budget - 1
  /\ ev' = Step
  /\ UNCHANGED <<store, keyOrder, activeJobs, tasks, setupNotificationsTimeout, timeouts,
                 rc, notif, daily, burst, hist>>

\* pause: the save is done; job.stop() on the jobs of scheduledJobs
PauseSaved(u) ==
  /\ cmd[u].pc = "save" /\ cmd[u].kind = "pause"
  /\ store' = cmd[u].userPrefs
  /\ keyOrder' = cmd[u].keys
  /\ tasks' = SetRunning(activeJobs, tasks, cmd[u].userPrefs[u].scheduledJobs, FALSE)
  /\ cmd' = [cmd EXCEPT ![u] = IdleCmd]
  /\ ev' = Ev("pauseReturned", u, "", EmptyMap, cmd[u].hadJobs)
  /\ UNCHANGED <<activeJobs, setupNotificationsTimeout, timeouts, rc, notif, daily,
                 burst, budget, hist>>

\* resume: load, paused = false, await save (only for a paused user with times)
ResumeLoaded(u) ==
  /\ budget > 0
  /\ cmd[u].pc = "idle"
  /\ LET userPrefs == initUserPreferences(u, store)
     IN  /\ userPrefs[u].times # {}
         /\ userPrefs[u].paused
         /\ cmd' = [cmd EXCEPT ![u] =
                      [pc |-> "save", kind |-> "resume",
                       keys |-> KeysWith(keyOrder, u),
                       userPrefs |-> [userPrefs EXCEPT ![u].paused = FALSE],
                       hadJobs |-> HasJobs(u)]]
  /\ budget' = budget - 1
  /\ ev' = Step
  /\ UNCHANGED <<store, keyOrder, activeJobs, tasks, setupNotificationsTimeout, timeouts,
                 rc, notif, daily, burst, hist>>

\* resume: the save is done; job.start() on the jobs of scheduledJobs
ResumeSaved(u) ==
  /\ cmd[u].pc = "save" /\ cmd[u].kind = "resume"
  /\ store' = cmd[u].userPrefs
  /\ keyOrder' = cmd[u].keys
  /\ tasks' = SetRunning(activeJobs, tasks, cmd[u].userPrefs[u].scheduledJobs, TRUE)
  /\ cmd' = [cmd EXCEPT ![u] = IdleCmd]
  /\ ev' = Ev("resumeReturned", u, "", EmptyMap, cmd[u].hadJobs)
  /\ UNCHANGED <<activeJobs, setupNotificationsTimeout, timeouts, rc, notif, daily,
                 burst, budget, hist>>

\* the record the stop command leaves for the user
StoppedPrefs(userPrefs, u) ==
  IF u \notin DOMAIN userPrefs THEN initUserPreferences(u, userPrefs)
  ELSE [userPrefs EXCEPT ![u].times = {}, ![u].autoApply = FALSE,
                         ![u].paused = FALSE, ![u].scheduledJobs = {}]

\* the jobs the stop command cancels: the user's scheduledJobs as loaded
StoppedJobs(userPrefs, u) ==
  IF u \in DOMAIN userPrefs THEN userPrefs[u].scheduledJobs ELSE {}

\* stop: load, clear the record, cancel and unregister the jobs, await save
StopLoaded(u) ==
  /\ budget > 0
  /\ cmd[u].pc = "idle"
  /\ LET userPrefs == store
         st == CancelJobs(activeJobs, tasks, StoppedJobs(userPrefs, u))
     IN  /\ activeJobs' = st.aj
         /\ tasks' = st.tk
         /\ cmd' = [cmd EXCEPT ![u] =
                      [pc |-> "save", kind |-> "stop",
                       keys |-> KeysWith(keyOrder, u),
                       userPrefs |-> StoppedPrefs(userPrefs, u),
                       hadJobs |-> HasJobs(u)]]
  /\ budget' = budget - 1
  /\ ev' = Step
  /\ UNCHANGED <<store, keyOrder, setupNotificationsTimeout, timeouts, rc, notif, daily, burst, hist>>

\* stop: the save is done and the command replies
StopSaved(u) ==
  /\ cmd[u].pc = "save" /\ cmd[u].kind = "stop"
  /\ store' = cmd[u].userPrefs
  /\ keyOrder' = cmd[u].keys
  /\ cmd' = [cmd EXCEPT ![u] = IdleCmd]
  /\ ev' = Ev("stopReturned", u, "", EmptyMap, cmd[u].hadJobs)
  /\ UNCHANGED <<activeJobs, tasks, setupNotificationsTimeout, timeouts, rc, notif,
                 daily, burst, budget, hist>>

(***************************************************************************)
(* The timezone_select interaction, lines 931-957.                         *)
(***************************************************************************)
\* the fields of a record that the user's commands set
UserFields(prefs) ==
  [times |-> prefs.times, autoApply |-> prefs.autoApply, paused |-> prefs.paused,
   timezone |-> prefs.timezone]

\* a save that writes only the record of the user of the handler
WrittenMappingOwnRecord(prefs, cur, u) == (u :> prefs[u]) @@ cur

\* saveUserPreferences(prefs): the file becomes JSON.stringify(prefs), whatever
\* it held (cur)
WrittenMapping(prefs, cur, u) == prefs

\* the users other than u whose record in the file differs from the one in the
\* mapping that is about to replace the file
Overwritten(prefs, cur, u) ==
  {w \in DOMAIN cur \ {u} :
     w \notin DOMAIN prefs \/ UserFields(cur[w]) # UserFields(prefs[w])}

\* the step in which the timezone_select handler has saved
TimezoneSelected(u, prefs, cur, flag) ==
  [type |-> "timezoneSelected", userId |-> u, timeValue |-> "", userPrefs |-> prefs,
   flag |-> flag, overwritten |-> Overwritten(prefs, cur, u)]

\* load, init the user when absent, timezone = selectedTimezone, await save
TimezoneSelectLoaded(u, selectedTimezone) ==
  /\ budget > 0
  /\ cmd[u].pc = "idle"
  /\ cmd' = [cmd EXCEPT ![u] =
               [pc |-> "save", kind |-> "timezone",
                keys |-> KeysWith(keyOrder, u),
                userPrefs |-> [initUserPreferences(u, store) EXCEPT
                                 ![u].timezone = selectedTimezone],
                hadJobs |-> HasJobs(u)]]
  /\ budget' = budget - 1
  /\ ev' = Step
  /\ UNCHANGED <<store, keyOrder, activeJobs, tasks, setupNotificationsTimeout, timeouts,
                 rc, notif, daily, burst, hist>>

\* the save is done; setupNotificationsDebounced()
TimezoneSelectSaved(u) ==
  /\ cmd[u].pc = "save" /\ cmd[u].kind = "timezone"
  /\ store' = WrittenMapping(cmd[u].userPrefs, store, u)
  /\ keyOrder' = cmd[u].keys
  /\ RequestDebounced
  /\ cmd' = [cmd EXCEPT ![u] = IdleCmd]
  /\ ev' = TimezoneSelected(u, cmd[u].userPrefs, store, cmd[u].hadJobs)
  /\ UNCHANGED <<activeJobs, tasks, rc, notif, daily, budget, hist>>

(***************************************************************************)
(* Handlers that create the record of a user who has none: the `me`        *)
(* command (lines 1381-1388), sendTimezoneSelector called by the           *)
(* `timezone` command (lines 509-517) and, in test mode, the `test`        *)
(* command (lines 1305-1311).  Each loads the mapping and, when the user   *)
(* is absent, adds the default record and awaits the save of the whole     *)
(* mapping; for a user who has a record they write nothing.  `test` then   *)
(* replies and calls sendNotificationToUser itself (testNotification).     *)
(***************************************************************************)
\* `me` by a user the loaded mapping does not hold: load, userPrefs[userId] = initUserPreferences(userId, userPrefs),
\* await saveUserPreferences(userPrefs)
MeLoaded(u) ==
  /\ budget > 0
  /\ cmd[u].pc = "idle"
  /\ u \notin DOMAIN store
  /\ cmd' = [cmd EXCEPT ![u] =
               [pc |-> "save", kind |-> "me",
                keys |-> KeysWith(keyOrder, u),
                userPrefs |-> initUserPreferences(u, store),
                hadJobs |-> HasJobs(u)]]
  /\ budget' = budget - 1
  /\ ev' = Step
  /\ UNCHANGED <<store, keyOrder, activeJobs, tasks, setupNotificationsTimeout, timeouts,
                 rc, notif, daily, burst, hist>>

\* the save is done: the file is the mapping loaded plus the new record
MeSaved(u) ==
  /\ cmd[u].pc = "save" /\ cmd[u].kind = "me"
  /\ store' = cmd[u].userPrefs
  /\ keyOrder' = cmd[u].keys
  /\ cmd' = [cmd EXCEPT ![u] = IdleCmd]
  /\ ev' = Ev("recordCreated", u, "", cmd[u].userPrefs, cmd[u].hadJobs)
  /\ UNCHANGED <<activeJobs, tasks, setupNotificationsTimeout, timeouts, rc, notif,
                 daily, burst, budget, hist>>

\* `timezone` by a user the loaded mapping does not hold: load, userPrefs[userId] = initUserPreferences(userId, userPrefs),
\* await saveUserPreferences(userPrefs)
SendTimezoneSelectorLoaded(u) ==
  /\ budget > 0
  /\ cmd[u].pc = "idle"
  /\ u \notin DOMAIN store
  /\ cmd' = [cmd EXCEPT ![u] =
               [pc |-> "save", kind |-> "timezoneCommand",
                keys |-> KeysWith(keyOrder, u),
                userPrefs |-> initUserPreferences(u, store),
                hadJobs |-> HasJobs(u)]]
  /\ budget' = budget - 1
  /\ ev' = Step
  /\ UNCHANGED <<store, keyOrder, activeJobs, tasks, setupNotificationsTimeout, timeouts,
                 rc, notif, daily, burst, hist>>

\* the save is done: the file is the mapping loaded plus the new record
SendTimezoneSelectorSaved(u) ==
  /\ cmd[u].pc = "save" /\ cmd[u].kind = "timezoneCommand"
  /\ store' = cmd[u].userPrefs
  /\ keyOrder' = cmd[u].keys
  /\ cmd' = [cmd EXCEPT ![u] = IdleCmd]
  /\ ev' = Ev("recordCreated", u, "", cmd[u].userPrefs, cmd[u].hadJobs)
  /\ UNCHANGED <<activeJobs, tasks, setupNotificationsTimeout, timeouts, rc, notif,
                 daily, burst, budget, hist>>

\* the arguments of the test command in the model: none, a time of the
\* catalog, a time that is not in the catalog
NoArg == ""
TestArgs == {NoArg, "21:00", UnknownSlot}

\* the times the test command may pass to testNotification (lines 1323-1353),
\* on the mapping it loaded: the argument when the catalog has it, no time when
\* it has not (the reply is "Invalid time"); without argument the first of the
\* user's times, '12:00' for a user without times.  times is kept as a set: any
\* member may be the first.
TestValues(userPrefs, u, timeArg) ==
  IF timeArg # NoArg
  THEN IF TimeInfoFound(timeArg) THEN {timeArg} ELSE {}
  ELSE IF HasTimes(userPrefs, u) THEN userPrefs[u].times ELSE {"12:00"}

\* `test`, in test mode: a user the loaded mapping does not hold is added and
\* the save awaited; for the others message.reply is awaited at once
TestLoaded(u, timeArg) ==
  /\ budget > 0
  /\ cmd[u].pc = "idle"
  /\ cmd' = [cmd EXCEPT ![u] =
               IF u \in DOMAIN store
               THEN [pc |-> "reply", kind |-> "test", keys |-> <<>>,
                     userPrefs |-> EmptyMap, hadJobs |-> FALSE,
                     timeValues |-> TestValues(store, u, timeArg)]
               ELSE [pc |-> "save", kind |-> "test",
                     keys |-> KeysWith(keyOrder, u),
                     userPrefs |-> initUserPreferences(u, store),
                     hadJobs |-> HasJobs(u),
                     timeValues |-> TestValues(initUserPreferences(u, store), u,
                                               timeArg)]]
  /\ budget' = budget - 1
  /\ ev' = Step
  /\ UNCHANGED <<store, keyOrder, activeJobs, tasks, setupNotificationsTimeout, timeouts,
                 rc, notif, daily, burst, hist>>

\* the save is done; message.reply is awaited
TestSaved(u) ==
  /\ cmd[u].pc = "save" /\ cmd[u].kind = "test"
  /\ store' = cmd[u].userPrefs
  /\ keyOrder' = cmd[u].keys
  /\ cmd' = [cmd EXCEPT ![u] =
               [pc |-> "reply", kind |-> "test", keys |-> <<>>,
                userPrefs |-> EmptyMap, hadJobs |-> FALSE,
                timeValues |-> cmd[u].timeValues]]
  /\ ev' = Ev("recordCreated", u, "", cmd[u].userPrefs, cmd[u].hadJobs)
  /\ UNCHANGED <<activeJobs, tasks, setupNotificationsTimeout, timeouts, rc, notif,
                 daily, burst, budget, hist>>

\* the argument is not a time of the catalog: the reply "Invalid time" is
\* sent and the handler returns (lines 1336-1339)
TestInvalidTime(u) ==
  /\ cmd[u].pc = "reply" /\ cmd[u].kind = "test"
  /\ cmd[u].timeValues = {}
  /\ cmd' = [cmd EXCEPT ![u] = IdleCmd]
  /\ ev' = Step
  /\ UNCHANGED <<store, keyOrder, activeJobs, tasks, setupNotificationsTimeout, timeouts,
                 rc, notif, daily, burst, budget, hist>>

\* the instants at which the test commands of the model are run: 17:55 in
\* DEFAULT_TIMEZONE
TestInstants == {UtcTime(17, 55, DEFAULT_TIMEZONE)}

\* the times testNotification is called with in the model; a time that is
\* not in the catalog reaches it as times[0] only, from a file that holds one
TestTimes == Slots \cup {"12:00", UnknownSlot}

\* the reply is sent and testNotification(userId, timeValue, channel), lines
\* 631-648, is called: for a time of the catalog sendNotificationToUser(userId,
\* timeInfo.label) is called and awaits its load; for any other time
\* channel.send("Time not found") is awaited and false returned
TestNotification(u, timeValue, utc) ==
  /\ cmd[u].pc = "reply" /\ cmd[u].kind = "test"
  /\ timeValue \in cmd[u].timeValues
  /\ IF TimeInfoFound(timeValue)
     THEN /\ notif.pc = "idle"
          /\ notif' = [pc |-> "load", userId |-> u,
                       timeLabel |-> TimeInfo(timeValue).label,
                       utc |-> utc, timezone |-> "", test |-> TRUE]
          /\ ev' = Step
     ELSE /\ notif' = notif
          /\ ev' = Ev("timeNotFound", u, timeValue, EmptyMap, TRUE)
  /\ cmd' = [cmd EXCEPT ![u] = IdleCmd]
  /\ UNCHANGED <<store, keyOrder, activeJobs, tasks, setupNotificationsTimeout, timeouts,
                 rc, daily, burst, budget, hist>>

(***************************************************************************)
(* The `testall` command, lines 1355-1378, in test mode, by an             *)
(* administrator: after its reply, for each entry of NOTIFICATION_TIMES in *)
(* turn, testNotification is awaited, then a delay of 2 s.  The loop of    *)
(* the model ends after MaxTestAll entries.                                *)
(***************************************************************************)
\* the first reply is awaited
TestAllStarted(u) ==
  /\ budget > 0
  /\ cmd[u].pc = "idle"
  /\ cmd' = [cmd EXCEPT ![u] =
               [pc |-> "call", kind |-> "testall", keys |-> <<>>,
                userPrefs |-> EmptyMap, hadJobs |-> FALSE, n |-> 1]]
  /\ budget' = budget - 1
  /\ ev' = Step
  /\ UNCHANGED <<store, keyOrder, activeJobs, tasks, setupNotificationsTimeout, timeouts,
                 rc, notif, daily, burst, hist>>

\* testNotification(userId, timeInfo.value, channel) for the n-th entry:
\* sendNotificationToUser is called and awaits its load
TestAllNotification(u, utc) ==
  /\ cmd[u].pc = "call" /\ cmd[u].kind = "testall"
  /\ notif.pc = "idle"
  /\ notif' = [pc |-> "load", userId |-> u,
               timeLabel |-> TimeInfo(NOTIFICATION_TIMES[cmd[u].n].value).label,
               utc |-> utc, timezone |-> "", test |-> TRUE]
  /\ cmd' = [cmd EXCEPT ![u].pc = "await"]
  /\ ev' = Step
  /\ UNCHANGED <<store, keyOrder, activeJobs, tasks, setupNotificationsTimeout, timeouts,
                 rc, daily, burst, budget, hist>>

\* the call has returned and the 2 s are over: the next entry, or the last
\* reply and the end of the command
TestAllDelayOver(u) ==
  /\ cmd[u].pc = "await" /\ cmd[u].kind = "testall"
  /\ notif.pc = "idle"
  /\ cmd' = [cmd EXCEPT ![u] =
               IF cmd[u].n < MaxTestAll /\ cmd[u].n < Len(NOTIFICATION_TIMES)
               THEN [cmd[u] EXCEPT !.pc = "call", !.n = @ + 1]
               ELSE IdleCmd]
  /\ ev' = Step
  /\ UNCHANGED <<store, keyOrder, activeJobs, tasks, setupNotificationsTimeout, timeouts,
                 rc, notif, daily, burst, budget, hist>>

(***************************************************************************)
(* sendDailySelector(channel, userId), lines 401-506, called by the        *)
(* setup_now button (lines 1068-1077).  For a user whose loaded record has *)
(* times, line 459 reads userPrefs outside the block that declares it: the *)
(* ReferenceError is caught at line 502 and nothing is written.  Otherwise *)
(* the menu is sent, the mapping is loaded again and, when it holds the    *)
(* user, lastSetupMessageId is set and the whole mapping is saved.  The    *)
(* model does not keep lastSetupMessageId: the records written are the     *)
(* ones of the second load.                                                *)
(***************************************************************************)
\* the first load: the user has no times; channel.send of the menu is awaited
SendDailySelectorLoaded(u) ==
  /\ budget > 0
  /\ cmd[u].pc = "idle"
  /\ ~HasTimes(store, u)
  /\ cmd' = [cmd EXCEPT ![u] = [IdleCmd EXCEPT !.pc = "send", !.kind = "setupNow"]]
  /\ budget' = budget - 1
  /\ ev' = Step
  /\ UNCHANGED <<store, keyOrder, activeJobs, tasks, setupNotificationsTimeout, timeouts,
                 rc, notif, daily, burst, hist>>

\* channel.send of the menu rejects: its catch gives null and the call returns
\* at line 484, nothing is loaded or written
SendDailySelectorSendFailed(u) ==
  /\ cmd[u].pc = "send" /\ cmd[u].kind = "setupNow"
  /\ cmd' = [cmd EXCEPT ![u] = IdleCmd]
  /\ ev' = Ev("setupMessageNotSent", u, "", EmptyMap, FALSE)
  /\ UNCHANGED <<store, keyOrder, activeJobs, tasks, setupNotificationsTimeout, timeouts,
                 rc, notif, daily, burst, budget, hist>>

\* the menu is sent (sentMessage is not null) and the mapping loaded again: a
\* user it holds gets lastSetupMessageId and the save is awaited; for an absent
\* user the call returns
SendDailySelectorReloaded(u) ==
  /\ cmd[u].pc = "send" /\ cmd[u].kind = "setupNow"
  /\ cmd' = [cmd EXCEPT ![u] =
               IF u \in DOMAIN store
               THEN [pc |-> "save", kind |-> "setupNow", keys |-> keyOrder, userPrefs |-> store,
                     hadJobs |-> HasJobs(u)]
               ELSE IdleCmd]
  /\ ev' = Step
  /\ UNCHANGED <<store, keyOrder, activeJobs, tasks, setupNotificationsTimeout, timeouts,
                 rc, notif, daily, burst, budget, hist>>

\* the save is done: the file is the mapping of the second load
SendDailySelectorSaved(u) ==
  /\ cmd[u].pc = "save" /\ cmd[u].kind = "setupNow"
  /\ store' = cmd[u].userPrefs
  /\ keyOrder' = cmd[u].keys
  /\ cmd' = [cmd EXCEPT ![u] = IdleCmd]
  /\ ev' = Ev("setupMessageSaved", u, "", cmd[u].userPrefs, cmd[u].hadJobs)
  /\ UNCHANGED <<activeJobs, tasks, setupNotificationsTimeout, timeouts, rc, notif,
                 daily, burst, budget, hist>>

(***************************************************************************)
(* The notification_times select menu, lines 798-925: the values picked    *)
(* are stored as tempTimes.  The catalog fits one menu, so the custom id   *)
(* is 'notification_times' and the values replace the selection.           *)
(***************************************************************************)
\* a selection that is written into times at once
SelectedPrefsInTimes(userPrefs, u, selectedTimes) ==
  [userPrefs EXCEPT ![u].times = selectedTimes, ![u].tempTimes = selectedTimes]

\* userPrefs[userId].tempTimes = allSelectedTimes
SelectedPrefs(userPrefs, u, selectedTimes) ==
  [userPrefs EXCEPT ![u].tempTimes = selectedTimes]

\* load, init the user when absent, tempTimes = interaction.values, await save
TimesSelectLoaded(u, selectedTimes) ==
  /\ budget > 0
  /\ cmd[u].pc = "idle"
  /\ cmd' = [cmd EXCEPT ![u] =
               [pc |-> "save", kind |-> "select",
                keys |-> KeysWith(keyOrder, u),
                userPrefs |-> SelectedPrefs(initUserPreferences(u, store), u,
                                            selectedTimes),
                hadJobs |-> HasJobs(u), loaded |-> store]]
  /\ budget' = budget - 1
  /\ ev' = Step
  /\ UNCHANGED <<store, keyOrder, activeJobs, tasks, setupNotificationsTimeout, timeouts,
                 rc, notif, daily, burst, hist>>

\* the step in which the select menu handler has saved
TimesSelected(u, prefs, loaded, flag) ==
  [type |-> "timesSelected", userId |-> u, timeValue |-> "", userPrefs |-> prefs,
   flag |-> flag, loaded |-> loaded]

\* the save is done; the handler updates the message
TimesSelectSaved(u) ==
  /\ cmd[u].pc = "save" /\ cmd[u].kind = "select"
  /\ store' = WrittenMapping(cmd[u].userPrefs, store, u)
  /\ keyOrder' = cmd[u].keys
  /\ cmd' = [cmd EXCEPT ![u] = IdleCmd]
  /\ ev' = TimesSelected(u, cmd[u].userPrefs, cmd[u].loaded, cmd[u].hadJobs)
  /\ UNCHANGED <<activeJobs, tasks, setupNotificationsTimeout, timeouts, rc, notif,
                 daily, burst, budget, hist>>

(***************************************************************************)
(* The auto_apply_yes / auto_apply_no buttons, lines 1000-1056: the times  *)
(* picked in the menu (tempTimes) become the user's times.                 *)
(***************************************************************************)
\* !userPrefs[userId].tempTimes || userPrefs[userId].tempTimes.length === 0
NoTempTimes(prefs) == prefs.tempTimes = NoTemp \/ prefs.tempTimes = {}

\* a commit that leaves tempTimes in the record
CommittedPrefsKeepTemp(userPrefs, u, autoApply) ==
  [userPrefs EXCEPT ![u].times = userPrefs[u].tempTimes, ![u].autoApply = autoApply]

\* times = tempTimes, autoApply, delete tempTimes
CommittedPrefs(userPrefs, u, autoApply) ==
  [userPrefs EXCEPT ![u].times = userPrefs[u].tempTimes, ![u].autoApply = autoApply,
                    ![u].tempTimes = NoTemp]

\* load, init the user when absent; reply and return when no times were picked,
\* else await save
AutoApplyLoaded(u, autoApply) ==
  /\ budget > 0
  /\ cmd[u].pc = "idle"
  /\ LET userPrefs == initUserPreferences(u, store)
     IN  /\ cmd' = IF NoTempTimes(userPrefs[u]) THEN cmd
                   ELSE [cmd EXCEPT ![u] =
                        [pc |-> "save", kind |-> "autoApply",
                         keys |-> KeysWith(keyOrder, u),
                         userPrefs |-> CommittedPrefs(userPrefs, u, autoApply),
                         hadJobs |-> HasJobs(u), loaded |-> store,
                         autoApply |-> autoApply]]
         /\ ev' = IF NoTempTimes(userPrefs[u])
                  THEN Ev("noTimesSelected", u, "", store, HasJobs(u))
                  ELSE Step
  /\ budget' = budget - 1
  /\ UNCHANGED <<store, keyOrder, activeJobs, tasks, setupNotificationsTimeout, timeouts,
                 rc, notif, daily, burst, hist>>

\* the step in which the button handler has saved and requested the debounce
TimesCommitted(u, prefs, loaded, autoApply, flag) ==
  [type |-> "timesCommitted", userId |-> u, timeValue |-> "", userPrefs |-> prefs,
   flag |-> flag, loaded |-> loaded, autoApply |-> autoApply]

\* the save is done; setupNotificationsDebounced() returns and the handler goes
\* on to its reply
AutoApplySaved(u) ==
  /\ cmd[u].pc = "save" /\ cmd[u].kind = "autoApply"
  /\ store' = WrittenMapping(cmd[u].userPrefs, store, u)
  /\ keyOrder' = cmd[u].keys
  /\ RequestDebounced
  /\ cmd' = [cmd EXCEPT ![u] = IdleCmd]
  /\ ev' = TimesCommitted(u, cmd[u].userPrefs, cmd[u].loaded, cmd[u].autoApply,
                          cmd[u].hadJobs)
  /\ UNCHANGED <<activeJobs, tasks, rc, notif, daily, budget, hist>>

(***************************************************************************)
(* The admin `clear` sub-command, lines 1891-1994: load, ask for           *)
(* confirmation and wait for the reaction (up to 30 s), then reset the     *)
(* records of the users with times in the mapping loaded before the wait,  *)
(* cancel the jobs their scheduledJobs name, and save.                     *)
(***************************************************************************)
\* usersWithNotifications > 0 (an empty mapping has none)
HasNotifications(userPrefs) == \E u \in DOMAIN userPrefs : userPrefs[u].times # {}

\* the loop of lines 1953-1975 on the loaded mapping
AdminClearedPrefs(userPrefs) ==
  [u \in DOMAIN userPrefs |->
     IF userPrefs[u].times # {}
     THEN [userPrefs[u] EXCEPT !.times = {}, !.autoApply = FALSE, !.paused = FALSE,
                               !.scheduledJobs = {}]
     ELSE userPrefs[u]]

\* the job ids the loop looks up in activeJobs
AdminClearedJobs(userPrefs) ==
  UNION {userPrefs[u].scheduledJobs : u \in {x \in DOMAIN userPrefs : userPrefs[x].times # {}}}

\* load; reply and return when nobody has times, else ask and await the reaction
AdminClearLoaded(a) ==
  /\ budget > 0
  /\ cmd[a].pc = "idle"
  /\ cmd' = IF HasNotifications(store)
            THEN [cmd EXCEPT ![a] =
                    [pc |-> "confirm", kind |-> "adminClear", keys |-> keyOrder, userPrefs |-> store,
                     hadJobs |-> HasJobs(a), loaded |-> store]]
            ELSE cmd
  /\ budget' = budget - 1
  /\ ev' = IF HasNotifications(store) THEN Step
           ELSE Ev("adminClearNothing", a, "", store, FALSE)
  /\ UNCHANGED <<store, keyOrder, activeJobs, tasks, setupNotificationsTimeout, timeouts,
                 rc, notif, daily, burst, hist>>

\* the reaction is the cross, or none came within 30 s: the command returns
AdminClearCancelled(a) ==
  /\ cmd[a].pc = "confirm" /\ cmd[a].kind = "adminClear"
  /\ cmd' = [cmd EXCEPT ![a] = IdleCmd]
  /\ ev' = Ev("adminClearCancelled", a, "", cmd[a].loaded, FALSE)
  /\ UNCHANGED <<store, keyOrder, activeJobs, tasks, setupNotificationsTimeout, timeouts,
                 rc, notif, daily, burst, budget, hist>>

\* the reaction is the check mark: the loop runs on the mapping loaded before
\* the wait, then saveUserPreferences is awaited
AdminClearConfirmed(a) ==
  /\ cmd[a].pc = "confirm" /\ cmd[a].kind = "adminClear"
  /\ LET st == CancelJobs(activeJobs, tasks, AdminClearedJobs(cmd[a].loaded))
     IN  /\ activeJobs' = st.aj
         /\ tasks' = st.tk
  /\ cmd' = [cmd EXCEPT ![a].pc = "save",
                        ![a].userPrefs = AdminClearedPrefs(cmd[a].loaded)]
  /\ ev' = Step
  /\ UNCHANGED <<store, keyOrder, setupNotificationsTimeout, timeouts, rc, notif, daily, burst,
                 budget, hist>>

\* the step in which the admin clear has saved
AdminCleared(a, prefs, loaded) ==
  [type |-> "adminCleared", userId |-> a, timeValue |-> "", userPrefs |-> prefs,
   flag |-> TRUE, loaded |-> loaded]

\* the save is done; the confirmation message is edited
AdminClearSaved(a) ==
  /\ cmd[a].pc = "save" /\ cmd[a].kind = "adminClear"
  /\ store' = WrittenMapping(cmd[a].userPrefs, store, a)
  /\ keyOrder' = cmd[a].keys
  /\ cmd' = [cmd EXCEPT ![a] = IdleCmd]
  /\ ev' = AdminCleared(a, cmd[a].userPrefs, cmd[a].loaded)
  /\ UNCHANGED <<activeJobs, tasks, setupNotificationsTimeout, timeouts, rc, notif,
                 daily, burst, budget, hist>>

(***************************************************************************)
(* sendNotificationToUser, lines 240-315, called by a task that fires.     *)
(***************************************************************************)
\* userPrefs[userId]?.paused on the mapping just loaded
PausedIn(userPrefs, userId) ==
  userId \in DOMAIN userPrefs /\ userPrefs[userId].paused

\* the times the message shows: the label's time, taken in DEFAULT_TIMEZONE and
\* converted to the user's timezone, and the user's local time at the instant
\* utc, at which dayjs() reads the clock (line 264)
Message(timeLabel, utc, userTimezone) ==
  [mvpTimeInUserTz |-> LocalTime(UtcTime(ParseLabel(timeLabel).hours,
                                         ParseLabel(timeLabel).minutes,
                                         DEFAULT_TIMEZONE), userTimezone),
   currentTime |-> LocalTime(utc, userTimezone),
   userTimezone |-> userTimezone]

\* the step in which channel.send(message) is called; `test` tells a call made
\* by the test commands from the call of a task, `fired` is the instant at
\* which sendNotificationToUser was called
Sent(userId, timeLabel, message, test, fired) ==
  [type |-> "channelSend", userId |-> userId, timeValue |-> timeLabel,
   userPrefs |-> EmptyMap, flag |-> test, message |-> message, fired |-> fired]

\* a running task fires: its callback calls sendNotificationToUser(userId,
\* timeInfo.label), which awaits loadUserPreferences().  The model follows one
\* call at a time: calls in progress together share nothing but the file,
\* which they only read.
TaskFires(t) ==
  /\ budget > 0
  /\ notif.pc = "idle"
  /\ t \in DOMAIN tasks
  /\ tasks[t].running
  /\ notif' = [pc |-> "load", userId |-> tasks[t].userId,
               timeLabel |-> TimeInfo(tasks[t].timeValue).label,
               utc |-> FireTime(tasks[t]), timezone |-> "", test |-> FALSE]
  /\ budget' = budget - 1
  /\ ev' = Step
  /\ UNCHANGED <<store, keyOrder, activeJobs, tasks, setupNotificationsTimeout, timeouts,
                 rc, cmd, daily, burst, hist>>

\* the step in which sendNotificationToUser has read the file
NotificationRead(userId, timeLabel, userPrefs, paused) ==
  [type |-> "notificationLoaded", userId |-> userId, timeValue |-> timeLabel,
   userPrefs |-> userPrefs, flag |-> paused]

\* the read of the file is done: a paused user is skipped (the call returns),
\* otherwise client.channels.fetch is awaited; the timezone line 263 takes from
\* the mapping is the one of this read
NotificationLoaded ==
  /\ notif.pc = "load"
  /\ notif' = IF PausedIn(store, notif.userId) THEN IdleNotif
              ELSE [notif EXCEPT !.pc = "fetch",
                                 !.timezone = PrefsTimezone(store, notif.userId)]
  /\ ev' = NotificationRead(notif.userId, notif.timeLabel, store,
                            PausedIn(store, notif.userId))
  /\ UNCHANGED <<store, keyOrder, activeJobs, tasks, setupNotificationsTimeout, timeouts,
                 rc, cmd, daily, burst, budget, hist>>

\* the minutes that can have passed, when line 264 reads the clock, since
\* sendNotificationToUser was called: the file read and the fetch were awaited
Delays == 0..MaxDelay

\* the fetch resolves with a channel: the clock is read, channel.send(message)
\* is called and awaited: the delivery capability is invoked
ChannelSend(delay) ==
  /\ notif.pc = "fetch"
  /\ notif' = [notif EXCEPT !.pc = "sending"]
  /\ ev' = Sent(notif.userId, notif.timeLabel,
                 Message(notif.timeLabel, DayMinutes(notif.utc + delay), notif.timezone),
                 notif.test, notif.utc)
  /\ UNCHANGED <<store, keyOrder, activeJobs, tasks, setupNotificationsTimeout, timeouts,
                 rc, cmd, daily, burst, budget, hist>>

\* the step in which a call of sendNotificationToUser ends without a message:
\* `called` tells whether channel.send had been called, category what the
\* catch logs, outcome what the caller of sendNotificationToUser observes
SendFailed(type, userId, timeLabel, category, called, outcome) ==
  [type |-> type, userId |-> userId, timeValue |-> timeLabel,
   userPrefs |-> EmptyMap, flag |-> called, category |-> category,
   outcome |-> outcome]

\* the fetch resolves with no channel (the else of line 292): two errors are
\* logged, channel.send is not called, the catch does not run and the call
\* returns
ChannelNotFound ==
  /\ notif.pc = "fetch"
  /\ notif' = IdleNotif
  /\ ev' = SendFailed("channelNotFound", notif.userId, notif.timeLabel, "none", FALSE,
                      Outcome(NoRaise, 1))
  /\ UNCHANGED <<store, keyOrder, activeJobs, tasks, setupNotificationsTimeout, timeouts,
                 rc, cmd, daily, burst, budget, hist>>

\* channel.send resolves: the message id is logged and the call returns
ChannelSendResolved ==
  /\ notif.pc = "sending"
  /\ notif' = IdleNotif
  /\ ev' = Ev("channelSendResolved", notif.userId, notif.timeLabel, EmptyMap, TRUE)
  /\ UNCHANGED <<store, keyOrder, activeJobs, tasks, setupNotificationsTimeout, timeouts,
                 rc, cmd, daily, burst, budget, hist>>

\* the error codes the catch of sendNotificationToUser tells apart; 0 is any other
ErrorCodes == {50013, 10003, 50001, 0}

\* what the catch logs besides the error itself
ErrorCategory(code) ==
  CASE code = 50013 -> "missing permissions"
    [] code = 10003 -> "channel not found"
    [] code = 50001 -> "missing access"
    [] OTHER -> "other"

\* client.channels.fetch rejects, or channel.send, already called, rejects:
\* the awaiting call is over, its catch, when it is the one that runs, logs
ChannelSendFails(code) ==
  /\ notif.pc \in {"fetch", "sending"}
  /\ notif' = IdleNotif
  /\ LET stack == IF notif.pc = "sending" THEN Raise.send ELSE Raise.fetch
     IN  ev' = SendFailed("sendFailed", notif.userId, notif.timeLabel,
                          IF CaughtIn(stack) = "sendNotificationToUser"
                          THEN ErrorCategory(code) ELSE "none",
                          notif.pc = "sending", Outcome(stack, 1))
  /\ UNCHANGED <<store, keyOrder, activeJobs, tasks, setupNotificationsTimeout, timeouts,
                 rc, cmd, daily, burst, budget, hist>>

(***************************************************************************)
(* applyAutoPreferences, lines 690-724.                                    *)
(***************************************************************************)
\* load and the loop; when `updated`, saveUserPreferences is awaited
ApplyAutoLoaded ==
  /\ budget > 0
  /\ daily.pc = "idle"
  /\ daily' = IF AutoApplyUpdated(store)
              THEN [pc |-> "save", keys |-> keyOrder, userPrefs |-> AutoAppliedPrefs(store), loaded |-> store]
              ELSE IdleDaily
  /\ budget' = budget - 1
  /\ ev' = IF AutoApplyUpdated(store) THEN Step
           ELSE Ev("applyAutoReturned", "", "", store, FALSE)
  /\ UNCHANGED <<store, keyOrder, activeJobs, tasks, setupNotificationsTimeout, timeouts,
                 rc, cmd, notif, burst, hist>>

\* the save is done; setupNotificationsDebounced()
ApplyAutoSaved ==
  /\ daily.pc = "save"
  /\ store' = daily.userPrefs
  /\ keyOrder' = daily.keys
  /\ RequestDebounced
  /\ daily' = IdleDaily
  /\ ev' = Ev("applyAutoReturned", "", "", daily.loaded, TRUE)
  /\ UNCHANGED <<activeJobs, tasks, rc, cmd, notif, budget, hist>>

(***************************************************************************)
(* The program: every handler, interleaved at its suspension points.  The  *)
(* failures of the file and of cron.schedule are in SpecFail; a delivery   *)
(* fails here with one error code and the timezone menu has one choice,    *)
(* SpecSend has every code and SpecTz every timezone.                      *)
(***************************************************************************)
\* the timezone picked in the timezone_select menu
TimezoneChoices == {"UTC"}

Next ==
  \/ \E i \in RunIds : Reload(i)
  \/ \E i \in RunIds : SetupNotificationsLoaded(i)
  \/ \E i \in RunIds : SetupNotificationsSaved(i)
  \/ \E u \in Users : RefreshLoaded(u)
  \/ \E u \in Users : RefreshReplied(u)
  \/ QuietIntervalElapsed
  \/ \E i \in RunIds : TimeoutFires(i)
  \/ \E i \in RunIds : RestartAllCronJobs(i)
  \/ \E i \in RunIds : RestartGraceOver(i)
  \/ \E u \in Users : PauseLoaded(u)
  \/ \E u \in Users : PauseSaved(u)
  \/ \E u \in Users : ResumeLoaded(u)
  \/ \E u \in Users : ResumeSaved(u)
  \/ \E u \in Users : StopLoaded(u)
  \/ \E u \in Users : StopSaved(u)
  \/ \E t \in TaskIds : TaskFires(t)
  \/ NotificationLoaded
  \/ \E delay \in Delays : ChannelSend(delay)
  \/ ChannelNotFound
  \/ ChannelSendResolved
  \/ ChannelSendFails(50013)
  \/ ApplyAutoLoaded
  \/ ApplyAutoSaved
  \/ \E u \in Users, tz \in TimezoneChoices : TimezoneSelectLoaded(u, tz)
  \/ \E u \in Users : TimezoneSelectSaved(u)
  \/ \E u \in Users, selectedTimes \in {{}, {"21:00"}} :
       TimesSelectLoaded(u, selectedTimes)
  \/ \E u \in Users : TimesSelectSaved(u)
  \/ \E u \in Users, autoApply \in BOOLEAN : AutoApplyLoaded(u, autoApply)
  \/ \E u \in Users : AutoApplySaved(u)
  \/ \E a \in Users : AdminClearLoaded(a)
  \/ \E a \in Users : AdminClearCancelled(a)
  \/ \E a \in Users : AdminClearConfirmed(a)
  \/ \E a \in Users : AdminClearSaved(a)
  \/ \E u \in Users : MeLoaded(u)
  \/ \E u \in Users : MeSaved(u)
  \/ \E u \in Users : SendTimezoneSelectorLoaded(u)
  \/ \E u \in Users : SendTimezoneSelectorSaved(u)
  \/ \E u \in Users, timeArg \in TestArgs : TestLoaded(u, timeArg)
  \/ \E u \in Users : TestSaved(u)
  \/ \E u \in Users : TestInvalidTime(u)
  \/ \E u \in Users, timeValue \in TestTimes, utc \in TestInstants :
       TestNotification(u, timeValue, utc)
  \/ \E u \in Users : TestAllStarted(u)
  \/ \E u \in Users, utc \in TestInstants : TestAllNotification(u, utc)
  \/ \E u \in Users : TestAllDelayOver(u)
  \/ \E u \in Users : SendDailySelectorLoaded(u)
  \/ \E u \in Users : SendDailySelectorSendFailed(u)
  \/ \E u \in Users : SendDailySelectorReloaded(u)
  \/ \E u \in Users : SendDailySelectorSaved(u)

\* the file holds at most the record of u1, with at most the time 18:00; u2
\* has no record, and nobody the time 21:00, until a handler writes it
InitOneUser ==
  /\ Init
  /\ DOMAIN store \subseteq {"u1"}
  /\ \A u \in DOMAIN store : store[u].times \subseteq {"18:00"}

Spec == InitOneUser /\ [][Next]_vars

(***************************************************************************)
(* Successive runs: setupNotifications() called again only after the       *)
(* previous call has returned, nothing else running.                       *)
(***************************************************************************)
NoRunInProgress == \A i \in RunIds : rc[i].pc = "idle"

ReloadAfterReturn(i) == NoRunInProgress /\ Reload(i)

NextSeq ==
  \/ \E i \in RunIds : ReloadAfterReturn(i)
  \/ \E i \in RunIds : SetupNotificationsLoaded(i)
  \/ \E i \in RunIds : SetupNotificationsSaved(i)

SpecSeq == Init /\ [][NextSeq]_vars

(***************************************************************************)
(* clearAllActiveJobs on a registry some of whose jobs raise when they are *)
(* cancelled, in its two revisions: part_002 (lines 106-126) deletes the   *)
(* keys of `let activeJobs`; src/index.js (lines 1756-1782) assigns {} to  *)
(* `const activeJobs`, which raises a TypeError.                           *)
(***************************************************************************)
\* the step in which clearAllActiveJobs ends
Cleared(registered, attempted, raised) ==
  [type |-> "clearAllEnded", userId |-> "", timeValue |-> "", userPrefs |-> EmptyMap,
   flag |-> raised, registered |-> registered, attempted |-> attempted]

ClearAllActiveJobs ==
  /\ budget > 0
  /\ tasks' = clearAllActiveJobs(activeJobs, tasks)
  /\ activeJobs' = EmptyMap
  /\ ev' = Cleared({activeJobs[j] : j \in DOMAIN activeJobs},
                   CancelAttempted(activeJobs), FALSE)
  /\ budget' = budget - 1
  /\ UNCHANGED <<store, keyOrder, setupNotificationsTimeout, timeouts, rc, cmd, notif, daily,
                 burst, hist>>

\* src/index.js: the loop runs, then `activeJobs = {}` raises and no key is removed
ClearAllActiveJobsConst ==
  /\ budget > 0
  /\ tasks' = clearAllActiveJobs(activeJobs, tasks)
  /\ activeJobs' = activeJobs
  /\ ev' = Cleared({activeJobs[j] : j \in DOMAIN activeJobs},
                   CancelAttempted(activeJobs), TRUE)
  /\ budget' = budget - 1
  /\ UNCHANGED <<store, keyOrder, setupNotificationsTimeout, timeouts, rc, cmd, notif, daily,
                 burst, hist>>

\* the registry a completed setupNotifications has built from the file
BuiltJobs(userPrefs) ==
  ScheduleJobs(JobsToSchedule(userPrefs), userPrefs, [aj |-> EmptyMap, tk |-> EmptyMap])

\* the same tasks, any of which may raise when cancelled
WithThrowing(tk) ==
  {[t \in DOMAIN tk |-> [tk[t] EXCEPT !.throws = f[t]]] : f \in [DOMAIN tk -> BOOLEAN]}

InitClear ==
  /\ store \in {m \in InitialStores : WellFormed(m)}
  /\ keyOrder \in KeyOrders(DOMAIN store)
  /\ activeJobs = BuiltJobs(store).aj
  /\ tasks \in WithThrowing(BuiltJobs(store).tk)
  /\ setupNotificationsTimeout = NullTimeout
  /\ timeouts = <<>>
  /\ rc = [i \in RunIds |-> IdleRun]
  /\ cmd = [u \in Users |-> IdleCmd]
  /\ notif = IdleNotif
  /\ daily = IdleDaily
  /\ ev = Step
  /\ hist = <<>>
  /\ burst = NoBurst
  /\ budget = MaxOps

NextClear ==
  \/ ClearAllActiveJobs
  \/ ClearAllActiveJobsConst

SpecClear == InitClear /\ [][NextClear]_vars

(***************************************************************************)
(* Failures inside setupNotifications and restartAllCronJobs.  The read of *)
(* the file fails (loadUserPreferences logs and returns {}), cron.schedule *)
(* raises for a record whose timezone is not a time zone (the forEach is   *)
(* left and the catch of line 625 logs), the write of the file fails       *)
(* (saveUserPreferences logs), job.cancel() raises while the registry is   *)
(* cleared (the loop of clearAllActiveJobs logs and goes on).  SpecFail    *)
(* and SpecFailClear run one handler at a time.                            *)
(***************************************************************************)
MalformedTimezone == "Not/AZone"

\* what the await of setupNotifications() in restartAllCronJobs (line 738)
\* makes of a raise inside setupNotifications
RestartAwait(stack) ==
  IF stack = NoRaise THEN NoRaise
  ELSE <<Frame("restartAllCronJobs", 738)>> \o stack

\* restartAllCronJobs: return true (line 741), return false in its catch
RestartResult(stack) ==
  CaughtIn(stack) \notin {"restartAllCronJobs", "restartAllCronJobsConst"}

\* the step in which setupNotifications (and restartAllCronJobs, when it made
\* the call) ends; failed is the step of the run that failed, stack the raise
\* that ended the run (NoRaise when the run reached its end)
RunEnded(i, failed, stack) ==
  [type |-> IF rc[i].via = "restart" THEN "restartAllCronJobsEnded"
            ELSE "setupNotificationsEnded",
   userId |-> "", timeValue |-> "", userPrefs |-> rc[i].userPrefs,
   flag |-> RestartResult(RestartAwait(stack)),
   failed |-> failed, outcome |-> Outcome(stack, 1),
   cancelRaised |-> rc[i].cancelRaised]

\* what every end of a run does besides the file: the debounce callback sets
\* setupNotificationsTimeout = null when its await of setupNotifications()
\* returns (line 138)
RunLeaves(i, outcome) ==
  /\ setupNotificationsTimeout' =
       IF rc[i].via = "debounce" /\ outcome = "returned" THEN NullTimeout
       ELSE setupNotificationsTimeout
  /\ rc' = [rc EXCEPT ![i] = IdleRun]

\* setupNotifications is entered by `reload` and job.cancel() raises for the
\* registered jobs `raising`: each raise is caught in the loop of
\* clearAllActiveJobs, the other jobs are cancelled, every key is deleted and
\* loadUserPreferences() is awaited
ReloadCancelRaising(i, raising) ==
  /\ budget > 0
  /\ FreeRun(i)
  /\ NoRunInProgress
  /\ raising # {}
  /\ raising \subseteq {activeJobs[jobId] : jobId \in DOMAIN activeJobs}
  /\ CaughtIn(Raise.cancel) = "clearAllActiveJobs"
  /\ tasks' = clearAllActiveJobs(activeJobs,
                                 [t \in DOMAIN tasks |->
                                    [tasks[t] EXCEPT !.throws = t \in raising]])
  /\ activeJobs' = EmptyMap
  /\ rc' = [rc EXCEPT ![i] = [pc |-> "load", via |-> "direct", keys |-> <<>>,
                              userPrefs |-> EmptyMap, failed |-> "none",
                              cancelRaised |-> TRUE]]
  /\ budget' = budget - 1
  /\ ev' = Step
  /\ UNCHANGED <<store, keyOrder, setupNotificationsTimeout, timeouts, cmd, notif, daily,
                 burst, hist>>

\* readFile or JSON.parse raises: the catch of loadUserPreferences returns {},
\* the loop runs on {} and the save of {} is awaited
SetupNotificationsLoadFailed(i) ==
  /\ rc[i].pc = "load"
  /\ CaughtIn(Raise.load) = "loadUserPreferences"
  /\ rc' = [rc EXCEPT ![i] = [pc |-> "save", via |-> rc[i].via, keys |-> <<>>,
                              userPrefs |-> EmptyMap, failed |-> "load",
                              cancelRaised |-> rc[i].cancelRaised]]
  /\ ev' = Step
  /\ UNCHANGED <<store, keyOrder, activeJobs, tasks, setupNotificationsTimeout, timeouts, cmd, notif,
                 daily, burst, budget, hist>>

\* cron.schedule raises inside the forEach: the jobs of the users whose keys
\* come before the raising one stay registered, nothing is saved
SetupNotificationsScheduleRaised(i) ==
  /\ rc[i].pc = "load"
  /\ ScheduleRaises(store)
  /\ LET userPrefs == store
         todo == JobsToSchedule(Restrict(userPrefs, UsersBeforeRaise(userPrefs, keyOrder)))
         st == ScheduleJobs(todo, userPrefs, [aj |-> activeJobs, tk |-> tasks])
     IN  /\ Cardinality(DOMAIN tasks) + Cardinality(todo) <= MaxTasks
         /\ activeJobs' = st.aj
         /\ tasks' = st.tk
  /\ RunLeaves(i, Outcome(Raise.schedule, 1))
  /\ ev' = RunEnded(i, "schedule", Raise.schedule)
  /\ UNCHANGED <<store, keyOrder, timeouts, cmd, notif, daily, burst, budget, hist>>

\* writeFile succeeds
SetupNotificationsEnded(i) ==
  /\ rc[i].pc = "save"
  /\ store' = rc[i].userPrefs
  /\ keyOrder' = rc[i].keys
  /\ RunLeaves(i, Outcome(NoRaise, 1))
  /\ ev' = RunEnded(i, rc[i].failed, NoRaise)
  /\ UNCHANGED <<activeJobs, tasks, timeouts, cmd, notif, daily, burst, budget, hist>>

\* writeFile raises, whatever the load did: the catch of saveUserPreferences
\* logs and the file stays as it is
SetupNotificationsSaveFailed(i) ==
  /\ rc[i].pc = "save"
  /\ CaughtIn(Raise.save) = "saveUserPreferences"
  /\ RunLeaves(i, Outcome(Raise.save, 1))
  /\ ev' = RunEnded(i, IF rc[i].failed = "none" THEN "save" ELSE "loadAndSave", Raise.save)
  /\ UNCHANGED <<store, keyOrder, activeJobs, tasks, timeouts, cmd, notif, daily, burst, budget,
                 hist>>

RestartAfterReturn(i) == NoRunInProgress /\ RestartAllCronJobs(i)

\* the file may hold a slot value that is not in NOTIFICATION_TIMES and a
\* timezone that is not a time zone
StoredPrefsAny(u) ==
  {[times |-> ts, autoApply |-> FALSE, paused |-> FALSE,
    scheduledJobs |-> {EarlyJobId(u, s) : s \in ts \cap Slots},
    timezone |-> tz, tempTimes |-> NoTemp] :
     ts \in SUBSET (Slots \cup {UnknownSlot}),
     tz \in {DEFAULT_TIMEZONE, "UTC", MalformedTimezone}}

InitFail ==
  /\ store \in {m \in UNION {[D -> UNION {StoredPrefsAny(u) : u \in D}] : D \in SUBSET Users} :
                  \A u \in DOMAIN m : m[u] \in StoredPrefsAny(u)}
  /\ keyOrder \in KeyOrders(DOMAIN store)
  /\ activeJobs = EmptyMap
  /\ tasks = EmptyMap
  /\ setupNotificationsTimeout = NullTimeout
  /\ timeouts = <<>>
  /\ rc = [i \in RunIds |-> IdleRun]
  /\ cmd = [u \in Users |-> IdleCmd]
  /\ notif = IdleNotif
  /\ daily = IdleDaily
  /\ ev = Step
  /\ hist = <<>>
  /\ burst = NoBurst
  /\ budget = MaxOps

NextFail ==
  \/ \E i \in RunIds : ReloadAfterReturn(i)
  \/ \E i \in RunIds : RestartAfterReturn(i)
  \/ \E i \in RunIds : RestartGraceOver(i)
  \/ \E i \in RunIds : SetupNotificationsLoaded(i)
  \/ \E i \in RunIds : SetupNotificationsLoadFailed(i)
  \/ \E i \in RunIds : SetupNotificationsScheduleRaised(i)
  \/ \E i \in RunIds : SetupNotificationsEnded(i)
  \/ \E i \in RunIds : SetupNotificationsSaveFailed(i)

SpecFail == InitFail /\ [][NextFail]_vars

\* the same with cancellations that raise while the registry is cleared
NextFailClear ==
  \/ \E i \in RunIds : ReloadAfterReturn(i)
  \/ \E i \in RunIds, raising \in SUBSET TaskIds : ReloadCancelRaising(i, raising)
  \/ \E i \in RunIds : RestartAfterReturn(i)
  \/ \E i \in RunIds : RestartGraceOver(i)
  \/ \E i \in RunIds : SetupNotificationsLoaded(i)
  \/ \E i \in RunIds : SetupNotificationsLoadFailed(i)
  \/ \E i \in RunIds : SetupNotificationsScheduleRaised(i)
  \/ \E i \in RunIds : SetupNotificationsEnded(i)
  \/ \E i \in RunIds : SetupNotificationsSaveFailed(i)

SpecFailClear == InitFail /\ [][NextFailClear]_vars

(***************************************************************************)
(* Deliveries that fail.  SpecSend: setupNotifications is called one run   *)
(* at a time, tasks fire, the delivery succeeds or is rejected.            *)
(***************************************************************************)
NextSend ==
  \/ \E i \in RunIds : ReloadAfterReturn(i)
  \/ \E i \in RunIds : SetupNotificationsLoaded(i)
  \/ \E i \in RunIds : SetupNotificationsSaved(i)
  \/ \E t \in TaskIds : TaskFires(t)
  \/ NotificationLoaded
  \/ \E delay \in Delays : ChannelSend(delay)
  \/ ChannelNotFound
  \/ ChannelSendResolved
  \/ \E code \in ErrorCodes : ChannelSendFails(code)

SpecSend == Init /\ [][NextSend]_vars

(***************************************************************************)
(* Pause and resume, one handler at a time.  SpecPause: a command or a run *)
(* of setupNotifications starts only when no other is in progress.         *)
(***************************************************************************)
NoCmdInProgress == \A u \in Users : cmd[u].pc = "idle"

ReloadAlone(i) == NoCmdInProgress /\ ReloadAfterReturn(i)
PauseAlone(u) == NoCmdInProgress /\ NoRunInProgress /\ PauseLoaded(u)
ResumeAlone(u) == NoCmdInProgress /\ NoRunInProgress /\ ResumeLoaded(u)

NextPause ==
  \/ \E i \in RunIds : ReloadAlone(i)
  \/ \E i \in RunIds : SetupNotificationsLoaded(i)
  \/ \E i \in RunIds : SetupNotificationsSaved(i)
  \/ \E u \in Users : PauseAlone(u)
  \/ \E u \in Users : PauseSaved(u)
  \/ \E u \in Users : ResumeAlone(u)
  \/ \E u \in Users : ResumeSaved(u)

SpecPause == Init /\ [][NextPause]_vars

(***************************************************************************)
(* The whole catalog.  SpecCatalog: every user of the file has selected    *)
(* one of the sixteen times; setupNotifications is called one run at a     *)
(* time.                                                                   *)
(***************************************************************************)
CatalogValues == {NOTIFICATION_TIMES[n].value : n \in DOMAIN NOTIFICATION_TIMES}

StoredPrefsCatalog(u) ==
  {[times |-> {v}, autoApply |-> FALSE, paused |-> FALSE,
    scheduledJobs |-> {EarlyJobId(u, v)},
    timezone |-> DEFAULT_TIMEZONE, tempTimes |-> NoTemp] : v \in CatalogValues}

InitCatalog ==
  /\ store \in {m \in UNION {[D -> UNION {StoredPrefsCatalog(u) : u \in D}] :
                               D \in SUBSET Users} :
                  \A u \in DOMAIN m : m[u] \in StoredPrefsCatalog(u)}
  /\ keyOrder \in KeyOrders(DOMAIN store)
  /\ activeJobs = EmptyMap
  /\ tasks = EmptyMap
  /\ setupNotificationsTimeout = NullTimeout
  /\ timeouts = <<>>
  /\ rc = [i \in RunIds |-> IdleRun]
  /\ cmd = [u \in Users |-> IdleCmd]
  /\ notif = IdleNotif
  /\ daily = IdleDaily
  /\ ev = Step
  /\ hist = <<>>
  /\ burst = NoBurst
  /\ budget = MaxOps

SpecCatalog == InitCatalog /\ [][NextSeq]_vars

(***************************************************************************)
(* The src/index.js revision, where clearAllActiveJobs raises (lines       *)
(* 1756-1782).  setupNotifications (2196-2284) calls it first inside its   *)
(* try: the catch logs and the call is over before the file is read.       *)
(* restartAllCronJobs (2383-2402) calls it first inside its own try: the   *)
(* catch returns false.  The assignment of line 1780 stands after the loop  *)
(* and outside its try.                                                    *)
(***************************************************************************)
SetupNotificationsConst(i) ==
  /\ budget > 0
  /\ FreeRun(i)
  /\ NoRunInProgress
  /\ tasks' = clearAllActiveJobs(activeJobs, tasks)
  /\ activeJobs' = activeJobs
  /\ ev' = RunEnded(i, "clear", Raise.clear)
  /\ budget' = budget - 1
  /\ UNCHANGED <<store, keyOrder, setupNotificationsTimeout, timeouts, rc, cmd, notif, daily,
                 burst, hist>>

RestartAllCronJobsConst(i) ==
  /\ budget > 0
  /\ FreeRun(i)
  /\ NoRunInProgress
  /\ tasks' = clearAllActiveJobs(activeJobs, tasks)
  /\ activeJobs' = activeJobs
  /\ ev' = [RunEnded(i, "clear", Raise.restartClear) EXCEPT
              !.type = "restartAllCronJobsEnded",
              !.flag = RestartResult(Raise.restartClear)]
  /\ budget' = budget - 1
  /\ UNCHANGED <<store, keyOrder, setupNotificationsTimeout, timeouts, rc, cmd, notif, daily,
                 burst, hist>>

NextIndex ==
  \/ \E i \in RunIds : SetupNotificationsConst(i)
  \/ \E i \in RunIds : RestartAllCronJobsConst(i)

SpecIndex == Init /\ [][NextIndex]_vars

(***************************************************************************)
(* Stale scheduledJobs.  SpecStale: the file holds, for every user, any    *)
(* times and any scheduledJobs (applyAutoPreferences and the time menus    *)
(* change times and leave scheduledJobs); setupNotifications is called one *)
(* run at a time and nothing else writes.                                  *)
(***************************************************************************)
StoredPrefsStale(u) ==
  {[times |-> ts, autoApply |-> FALSE, paused |-> p,
    scheduledJobs |-> {EarlyJobId(u, s) : s \in js},
    timezone |-> DEFAULT_TIMEZONE, tempTimes |-> NoTemp] :
     ts \in SUBSET Slots, js \in SUBSET Slots, p \in BOOLEAN}

InitStale ==
  /\ store \in {m \in UNION {[D -> UNION {StoredPrefsStale(u) : u \in D}] :
                               D \in SUBSET Users} :
                  \A u \in DOMAIN m : m[u] \in StoredPrefsStale(u)}
  /\ keyOrder \in KeyOrders(DOMAIN store)
  /\ activeJobs = EmptyMap
  /\ tasks = EmptyMap
  /\ setupNotificationsTimeout = NullTimeout
  /\ timeouts = <<>>
  /\ rc = [i \in RunIds |-> IdleRun]
  /\ cmd = [u \in Users |-> IdleCmd]
  /\ notif = IdleNotif
  /\ daily = IdleDaily
  /\ ev = Step
  /\ hist = <<>>
  /\ burst = NoBurst
  /\ budget = MaxOps

SpecStale == InitStale /\ [][NextSeq]_vars

(***************************************************************************)
(* The debounce alone.  SpecDebounce: refresh commands request debounced   *)
(* runs, also while a run is in progress.  The event loop runs every timer *)
(* that is due and resumes every await that has settled: weak fairness on  *)
(* the steps that are not commands of a user.                              *)
(***************************************************************************)
\* one user in the file, with one time: the runs in progress together never
\* hold more than MaxTasks tasks
InitDebounce ==
  /\ Init
  /\ DOMAIN store = {"u1"}
  /\ store["u1"].times = {"18:00"}
  /\ ~store["u1"].autoApply

NextDebounce ==
  \/ \E u \in Users : RefreshLoaded(u)
  \/ \E u \in Users : RefreshReplied(u)
  \/ QuietIntervalElapsed
  \/ \E i \in RunIds : TimeoutFires(i)
  \/ \E i \in RunIds : SetupNotificationsLoaded(i)
  \/ \E i \in RunIds : SetupNotificationsSaved(i)

SpecDebounce ==
  /\ InitDebounce /\ [][NextDebounce]_vars
  /\ WF_vars(QuietIntervalElapsed)
  /\ WF_vars(\E i \in RunIds : TimeoutFires(i))
  /\ WF_vars(\E i \in RunIds : SetupNotificationsLoaded(i))
  /\ WF_vars(\E i \in RunIds : SetupNotificationsSaved(i))

(***************************************************************************)
(* Committing a selection.  SpecCommit: the file holds, for some users,    *)
(* times picked in the menu and not yet committed; the buttons, a reload   *)
(* and the debounced runs interleave.                                      *)
(***************************************************************************)
StoredPrefsTemp(u) ==
  {[times |-> ts, autoApply |-> FALSE, paused |-> FALSE,
    scheduledJobs |-> {EarlyJobId(u, s) : s \in ts},
    timezone |-> DEFAULT_TIMEZONE, tempTimes |-> tt] :
     ts \in {{"18:00"}}, tt \in {NoTemp, {}, {"21:00"}}}

InitCommit ==
  /\ store \in {m \in UNION {[D -> UNION {StoredPrefsTemp(u) : u \in D}] :
                               D \in SUBSET Users} :
                  \A u \in DOMAIN m : m[u] \in StoredPrefsTemp(u)}
  /\ keyOrder \in KeyOrders(DOMAIN store)
  /\ activeJobs = EmptyMap
  /\ tasks = EmptyMap
  /\ setupNotificationsTimeout = NullTimeout
  /\ timeouts = <<>>
  /\ rc = [i \in RunIds |-> IdleRun]
  /\ cmd = [u \in Users |-> IdleCmd]
  /\ notif = IdleNotif
  /\ daily = IdleDaily
  /\ ev = Step
  /\ hist = <<>>
  /\ burst = NoBurst
  /\ budget = MaxOps

NextCommit ==
  \/ \E i \in RunIds : Reload(i)
  \/ \E i \in RunIds : SetupNotificationsLoaded(i)
  \/ \E i \in RunIds : SetupNotificationsSaved(i)
  \/ \E u \in Users, autoApply \in BOOLEAN : AutoApplyLoaded(u, autoApply)
  \/ \E u \in Users : AutoApplySaved(u)
  \/ QuietIntervalElapsed
  \/ \E i \in RunIds : TimeoutFires(i)

SpecCommit == InitCommit /\ [][NextCommit]_vars

(***************************************************************************)
(* The daily reset and the reconcile it triggers.  SpecReset: the registry *)
(* is what a completed setupNotifications built from the file; the         *)
(* midnight job calls applyAutoPreferences once the previous reset and its *)
(* reconcile are over; nothing else runs.  The event loop is fair: a       *)
(* pending save completes, a timeout becomes due and fires, the run it     *)
(* starts loads and saves.                                                 *)
(***************************************************************************)
InitReset ==
  /\ store \in {m \in InitialStores : WellFormed(m)}
  /\ keyOrder \in KeyOrders(DOMAIN store)
  /\ activeJobs = BuiltJobs(store).aj
  /\ tasks = BuiltJobs(store).tk
  /\ setupNotificationsTimeout = NullTimeout
  /\ timeouts = <<>>
  /\ rc = [i \in RunIds |-> IdleRun]
  /\ cmd = [u \in Users |-> IdleCmd]
  /\ notif = IdleNotif
  /\ daily = IdleDaily
  /\ ev = Step
  /\ hist = <<>>
  /\ burst = NoBurst
  /\ budget = MaxOps

ApplyAutoAfterReturn == NoRunInProgress /\ timeouts = <<>> /\ ApplyAutoLoaded

NextReset ==
  \/ ApplyAutoAfterReturn
  \/ ApplyAutoSaved
  \/ QuietIntervalElapsed
  \/ \E i \in RunIds : TimeoutFires(i)
  \/ \E i \in RunIds : SetupNotificationsLoaded(i)
  \/ \E i \in RunIds : SetupNotificationsSaved(i)

SpecReset ==
  /\ InitReset
  /\ [][NextReset]_vars
  /\ WF_vars(ApplyAutoSaved)
  /\ WF_vars(QuietIntervalElapsed)
  /\ WF_vars(\E i \in RunIds : TimeoutFires(i))
  /\ WF_vars(\E i \in RunIds : SetupNotificationsLoaded(i))
  /\ WF_vars(\E i \in RunIds : SetupNotificationsSaved(i))

(***************************************************************************)
(* What setupNotifications writes back.  SpecFrame: the file holds records *)
(* with any times, flags, one of two timezones, times picked and not yet   *)
(* committed or none, and scheduledJobs left by an earlier selection;      *)
(* setupNotifications is called in succession, nothing else runs.          *)
(***************************************************************************)
StoredPrefsFrame(u) ==
  {[times |-> ts, autoApply |-> a, paused |-> p,
    scheduledJobs |-> {EarlyJobId(u, "21:00")},
    timezone |-> tz, tempTimes |-> tt] :
     ts \in SUBSET Slots, a \in BOOLEAN, p \in BOOLEAN,
     tz \in {DEFAULT_TIMEZONE, "UTC"}, tt \in {NoTemp, {"21:00"}}}

InitFrame ==
  /\ store \in {m \in UNION {[D -> UNION {StoredPrefsFrame(u) : u \in D}] :
                               D \in SUBSET Users} :
                  \A u \in DOMAIN m : m[u] \in StoredPrefsFrame(u)}
  /\ keyOrder \in KeyOrders(DOMAIN store)
  /\ activeJobs = EmptyMap
  /\ tasks = EmptyMap
  /\ setupNotificationsTimeout = NullTimeout
  /\ timeouts = <<>>
  /\ rc = [i \in RunIds |-> IdleRun]
  /\ cmd = [u \in Users |-> IdleCmd]
  /\ notif = IdleNotif
  /\ daily = IdleDaily
  /\ ev = Step
  /\ hist = <<>>
  /\ burst = NoBurst
  /\ budget = MaxOps

SpecFrame == InitFrame /\ [][NextSeq]_vars

(***************************************************************************)
(* Editing a selection.  SpecSelect: users pick times in the menu and      *)
(* press the buttons while reloads and debounced runs interleave.          *)
(***************************************************************************)
StoredPrefsSelect(u) ==
  {[times |-> {"18:00"}, autoApply |-> FALSE, paused |-> p,
    scheduledJobs |-> {EarlyJobId(u, "18:00")},
    timezone |-> DEFAULT_TIMEZONE, tempTimes |-> NoTemp] : p \in BOOLEAN}

InitSelect ==
  /\ store \in {m \in UNION {[D -> UNION {StoredPrefsSelect(u) : u \in D}] :
                               D \in SUBSET Users} :
                  \A u \in DOMAIN m : m[u] \in StoredPrefsSelect(u)}
  /\ keyOrder \in KeyOrders(DOMAIN store)
  /\ activeJobs = EmptyMap
  /\ tasks = EmptyMap
  /\ setupNotificationsTimeout = NullTimeout
  /\ timeouts = <<>>
  /\ rc = [i \in RunIds |-> IdleRun]
  /\ cmd = [u \in Users |-> IdleCmd]
  /\ notif = IdleNotif
  /\ daily = IdleDaily
  /\ ev = Step
  /\ hist = <<>>
  /\ burst = NoBurst
  /\ budget = MaxOps

NextSelect ==
  \/ \E i \in RunIds : Reload(i)
  \/ \E i \in RunIds : SetupNotificationsLoaded(i)
  \/ \E i \in RunIds : SetupNotificationsSaved(i)
  \/ \E u \in Users, selectedTimes \in {{}, {"21:00"}} :
       TimesSelectLoaded(u, selectedTimes)
  \/ \E u \in Users : TimesSelectSaved(u)
  \/ \E u \in Users, autoApply \in BOOLEAN : AutoApplyLoaded(u, autoApply)
  \/ \E u \in Users : AutoApplySaved(u)
  \/ QuietIntervalElapsed
  \/ \E i \in RunIds : TimeoutFires(i)

SpecSelect == InitSelect /\ [][NextSelect]_vars

(***************************************************************************)
(* The admin clear among other handlers.  SpecAdminClear: an admin runs    *)
(* `clear` while users pick times in the menu and setupNotifications is    *)
(* called by `reload`.                                                     *)
(***************************************************************************)
NextAdminClear ==
  \/ \E i \in RunIds : Reload(i)
  \/ \E i \in RunIds : SetupNotificationsLoaded(i)
  \/ \E i \in RunIds : SetupNotificationsSaved(i)
  \/ \E a \in Users : AdminClearLoaded(a)
  \/ \E a \in Users : AdminClearCancelled(a)
  \/ \E a \in Users : AdminClearConfirmed(a)
  \/ \E a \in Users : AdminClearSaved(a)
  \/ \E u \in Users : TimesSelectLoaded(u, {"21:00"})
  \/ \E u \in Users : TimesSelectSaved(u)

SpecAdminClear == InitSelect /\ [][NextAdminClear]_vars

(***************************************************************************)
(* Time zones.  SpecTzSeq: the file holds records with any of the          *)
(* timezones, or none, and setupNotifications is called in succession.     *)
(* SpecTz: users select timezones; setupNotifications runs one execution   *)
(* at a time, directly or from the debounce; tasks fire.                   *)
(***************************************************************************)
StoredPrefsTz(u) ==
  {[prefs EXCEPT !.timezone = tz] :
     prefs \in {x \in StoredPrefs(u) : ~x.autoApply}, tz \in Timezones \cup {""}}

InitTz ==
  /\ store \in UNION {[D -> UNION {StoredPrefsTz(u) : u \in D}] : D \in SUBSET Users}
  /\ \A u \in DOMAIN store : store[u] \in StoredPrefsTz(u)
  /\ keyOrder \in KeyOrders(DOMAIN store)
  /\ activeJobs = EmptyMap
  /\ tasks = EmptyMap
  /\ setupNotificationsTimeout = NullTimeout
  /\ timeouts = <<>>
  /\ rc = [i \in RunIds |-> IdleRun]
  /\ cmd = [u \in Users |-> IdleCmd]
  /\ notif = IdleNotif
  /\ daily = IdleDaily
  /\ ev = Step
  /\ hist = <<>>
  /\ burst = NoBurst
  /\ budget = MaxOps

TimeoutFiresAfterReturn(i) == NoRunInProgress /\ TimeoutFires(i)

NextTz ==
  \/ \E i \in RunIds : ReloadAfterReturn(i)
  \/ \E i \in RunIds : SetupNotificationsLoaded(i)
  \/ \E i \in RunIds : SetupNotificationsSaved(i)
  \/ \E u \in Users, tz \in Timezones : TimezoneSelectLoaded(u, tz)
  \/ \E u \in Users : TimezoneSelectSaved(u)
  \/ QuietIntervalElapsed
  \/ \E i \in RunIds : TimeoutFiresAfterReturn(i)
  \/ \E t \in TaskIds : TaskFires(t)
  \/ NotificationLoaded
  \/ \E delay \in Delays : ChannelSend(delay)
  \/ ChannelNotFound
  \/ ChannelSendResolved
  \/ ChannelSendFails(50013)

\* the users of the file have the default timezone, no autoApply and are not paused
InitTzSelect ==
  /\ Init
  /\ \A u \in DOMAIN store : ~store[u].autoApply /\ ~store[u].paused

SpecTz == InitTzSelect /\ [][NextTz]_vars

SpecTzSeq == InitTz /\ [][NextSeq]_vars

(***************************************************************************)
(* The daily reset with the commands that write the paused flag and the    *)
(* debounced pass it requests.                                             *)
(***************************************************************************)
NextDaily ==
  \/ ApplyAutoLoaded
  \/ ApplyAutoSaved
  \/ QuietIntervalElapsed
  \/ \E i \in RunIds : TimeoutFires(i)
  \/ \E i \in RunIds : SetupNotificationsLoaded(i)
  \/ \E i \in RunIds : SetupNotificationsSaved(i)
  \/ \E u \in Users : PauseLoaded(u)
  \/ \E u \in Users : PauseSaved(u)
  \/ \E u \in Users : ResumeLoaded(u)
  \/ \E u \in Users : ResumeSaved(u)

SpecDaily == Init /\ [][NextDaily]_vars

(***************************************************************************)
(* Properties.                                                             *)
(***************************************************************************)
\* the live timer handles of a key, of a user
LiveTimers(userId, timeValue) ==
  {t \in DOMAIN tasks : tasks[t].userId = userId /\ tasks[t].timeValue = timeValue}
LiveTimersOf(userId) == {t \in DOMAIN tasks : tasks[t].userId = userId}
RunningTimers(userId, timeValue) == {t \in LiveTimers(userId, timeValue) : tasks[t].running}

\* the task is the one the registry holds under its key
Registered(t) ==
  /\ EarlyJobId(tasks[t].userId, tasks[t].timeValue) \in DOMAIN activeJobs
  /\ activeJobs[EarlyJobId(tasks[t].userId, tasks[t].timeValue)] = t

SelectedSlots(userPrefs, userId) ==
  IF userId \in DOMAIN userPrefs THEN userPrefs[userId].times ELSE {}

ReconcileReturned == ev.type = "setupNotificationsReturned"

\* C1: at every instant each (userId, slot) has at most one live timer handle and
\* every live timer handle is the one the registry holds under its key (no
\* duplicate, no orphan), whatever the interleaving of the reconcile executions.
C1_NoDuplicateNoOrphan ==
  /\ \A u \in Users, s \in Slots : Cardinality(LiveTimers(u, s)) <= 1
  /\ \A t \in DOMAIN tasks : Registered(t)

\* C2: successive runs, each after the previous one has returned and with no
\* preference change, leave the same set of registry keys, and a user's live
\* timer handles never outnumber the user's selected slots (they equal them
\* when a run returns).
C2_SuccessiveRunsSameKeys ==
  /\ \A m, n \in DOMAIN hist : hist[m] = hist[n]
  /\ \A u \in Users :
       Cardinality(LiveTimersOf(u)) <= Cardinality(SelectedSlots(store, u))
  /\ ReconcileReturned =>
       \A u \in Users :
         Cardinality(LiveTimersOf(u)) = Cardinality(SelectedSlots(store, u))

\* three runs have returned and a user with one selected slot has one live timer
C2_Witness ==
  /\ Len(hist) >= 3
  /\ ReconcileReturned
  /\ \E u \in Users :
       /\ Cardinality(SelectedSlots(store, u)) = 1
       /\ Cardinality(LiveTimersOf(u)) = 1
       /\ \E s \in Slots : EarlyJobId(u, s) \in DOMAIN hist[1]

\* C3: when a reconcile returns, the running timers are exactly those of the
\* selected slots of the users not paused in the mapping that reconcile loaded:
\* one running timer for each, and no other.
C3_RunningSetExactAtReturn ==
  ReconcileReturned =>
    \A u \in Users, s \in Slots :
      Cardinality(RunningTimers(u, s)) =
        IF s \in SelectedSlots(ev.userPrefs, u) /\ ~ev.userPrefs[u].paused THEN 1 ELSE 0

\* C4: after a reconcile completes, every selected slot of every user has its
\* entry in the registry, holding a live timer.
C4_EntryPerSelectedSlotAtReturn ==
  ReconcileReturned =>
    \A u \in Users : \A s \in SelectedSlots(store, u) :
      /\ EarlyJobId(u, s) \in DOMAIN activeJobs
      /\ activeJobs[EarlyJobId(u, s)] \in DOMAIN tasks

\* C5: at most one execution of the reconcile is in progress at any time.
C5_ReconcilesSerialized ==
  Cardinality({i \in RunIds : InProgress(i)}) <= 1

\* C6: a burst of debounced requests leaves one scheduled call pending (each
\* request cancels the call of the previous one) and starts one execution.
C6_BurstRunsOnce ==
  /\ Cardinality(burst.ids) <= 1
  /\ burst.runs <= 1

\* C7: the delivery capability is never invoked for a firing timer while the
\* persisted paused flag of the user is true.
C7_NoDeliveryWhilePaused ==
  (ev.type = "channelSend" /\ ~ev.flag) => ~PausedIn(store, ev.userId)

\* C8: after a reconcile, every selected slot of a paused user has a registry
\* entry whose timer is stopped.
C8_PausedTimersRegisteredStopped ==
  ReconcileReturned =>
    \A u \in Users :
      PausedIn(ev.userPrefs, u) =>
        \A s \in SelectedSlots(ev.userPrefs, u) :
          /\ EarlyJobId(u, s) \in DOMAIN activeJobs
          /\ activeJobs[EarlyJobId(u, s)] \in DOMAIN tasks
          /\ ~tasks[activeJobs[EarlyJobId(u, s)]].running
          /\ RunningTimers(u, s) = {}

\* C9: after the stop command of a user who had registered timers, the registry
\* has no entry of the user and the persisted record has no times,
\* autoApply = false and paused = false.
C9_StopLeavesNothing ==
  (ev.type = "stopReturned" /\ ev.flag) =>
    /\ ~HasJobs(ev.userId)
    /\ ev.userId \in DOMAIN store
    /\ store[ev.userId].times = {}
    /\ ~store[ev.userId].autoApply
    /\ ~store[ev.userId].paused

\* C10: the daily reset keeps the times of a user with autoApply and times,
\* empties the times of a user without autoApply, and leaves the paused flag of
\* every user as it was in the mapping the reset loaded.
C10_DailyReset ==
  ev.type = "applyAutoReturned" =>
    LET before == ev.userPrefs
        after == IF ev.flag THEN store ELSE before
    IN  /\ DOMAIN after = DOMAIN before
        /\ \A u \in DOMAIN before :
             /\ (before[u].autoApply /\ before[u].times # {}) =>
                  after[u].times = before[u].times
             /\ ~before[u].autoApply => after[u].times = {}
             /\ after[u].paused = before[u].paused

\* a reset has saved: one user kept the times, a paused one lost them
C10_Witness ==
  /\ ev.type = "applyAutoReturned"
  /\ ev.flag
  /\ \E u \in DOMAIN ev.userPrefs :
       /\ ev.userPrefs[u].autoApply /\ ev.userPrefs[u].times # {}
       /\ store[u].times = ev.userPrefs[u].times
  /\ \E u \in DOMAIN ev.userPrefs :
       /\ ~ev.userPrefs[u].autoApply /\ ev.userPrefs[u].times # {}
       /\ ev.userPrefs[u].paused
       /\ store[u].times = {} /\ store[u].paused

\* the registry keys of a user
JobsOf(userId) == {jobId \in DOMAIN activeJobs : jobId[1] = userId}

\* the time of day five minutes before the time of a slot
WarningTime(timeValue) ==
  DayMinutes(ParseLabel(timeValue).hours * 60 + ParseLabel(timeValue).minutes - 5)

\* C11: after a reconcile, a user who is not paused, with slots S and timezone T
\* (the default one when the record stores none), has exactly |S| registry
\* entries, and the timer of slot s fires daily when the wall clock of T shows
\* the time of s minus five minutes (17:55 and 20:55 UTC for 18:00 and 21:00
\* with T = UTC).
C11_ScheduledInUserTimezone ==
  ReconcileReturned =>
    \A u \in DOMAIN ev.userPrefs :
      ~ev.userPrefs[u].paused =>
        /\ JobsOf(u) = {EarlyJobId(u, s) : s \in ev.userPrefs[u].times}
        /\ Cardinality(JobsOf(u)) = Cardinality(ev.userPrefs[u].times)
        /\ \A s \in ev.userPrefs[u].times :
             LET task == tasks[activeJobs[EarlyJobId(u, s)]]
                 T == IF ev.userPrefs[u].timezone = "" THEN DEFAULT_TIMEZONE
                      ELSE ev.userPrefs[u].timezone
             IN  /\ task.running
                 /\ task.timezone = T
                 /\ LocalTime(FireTime(task), T) = WarningTime(s)
                 /\ (T = "UTC" /\ s = "18:00") => FireTime(task) = 17 * 60 + 55
                 /\ (T = "UTC" /\ s = "21:00") => FireTime(task) = 20 * 60 + 55

\* a reconcile has returned for a user with both slots and timezone UTC, and
\* for a user whose record stores no timezone
C11_Witness ==
  /\ ReconcileReturned
  /\ \E u \in DOMAIN store :
       /\ store[u].timezone = "UTC" /\ ~store[u].paused /\ store[u].times = Slots
       /\ Cardinality(JobsOf(u)) = 2
       /\ FireTime(tasks[activeJobs[EarlyJobId(u, "18:00")]]) = 17 * 60 + 55
  /\ \E u \in DOMAIN store :
       /\ store[u].timezone = "" /\ ~store[u].paused /\ store[u].times # {}
       /\ JobsOf(u) # {}

\* C12: when a user whose 18:00 slot was scheduled in UTC has switched to
\* America/New_York and the reconcile has run, the trigger of that slot fires
\* at the minute that corresponds to 13:00 in New York (12:55, the warning, or
\* 13:00), not to 18:00 in New York.
C12_TimezoneShiftKeepsInstant ==
  (ReconcileReturned /\ Len(hist) >= 2) =>
    \A u \in Users :
      LET before == hist[Len(hist) - 1]
          after == hist[Len(hist)]
          jobId == EarlyJobId(u, "18:00")
      IN  ( /\ jobId \in DOMAIN before /\ jobId \in DOMAIN after
            /\ before[jobId].timezone = "UTC"
            /\ after[jobId].timezone = "America/New_York" ) =>
            LocalTime(after[jobId].utc, "America/New_York") \in {12 * 60 + 55, 13 * 60}

\* C13: the spawn time a notification shows is five minutes after the local
\* time, in the user's timezone, of the instant at which the timer fired.
C13_SentFiveMinutesBeforeSpawn ==
  ev.type = "channelSend" =>
    ev.message.mvpTimeInUserTz =
      DayMinutes(LocalTime(ev.fired, ev.message.userTimezone) + 5)

\* C14: clearAllActiveJobs attempts the cancellation of every registered job,
\* also when some of them raise, does not raise itself, and leaves the
\* registry empty.
C14_ClearAllResilient ==
  ev.type = "clearAllEnded" =>
    /\ ev.attempted = ev.registered
    /\ ~ev.flag
    /\ activeJobs = EmptyMap

\* what a rebuild that succeeded leaves: every known slot of every user of the
\* file has its entry, and the file holds the rebuilt records
RebuildSucceeded ==
  /\ \A u \in DOMAIN store : \A s \in ScheduledTimes(store, u) :
       EarlyJobId(u, s) \in DOMAIN activeJobs
  /\ store = RebuiltPrefs(store)
  /\ ev.failed = "none"

\* C15: restartAllCronJobs clears the registry, waits, calls setupNotifications
\* directly, and returns true when the rebuild succeeded and false when the
\* clearing or the rebuild failed.
C15_RestartReportsOutcome ==
  ev.type = "restartAllCronJobsEnded" =>
    /\ setupNotificationsTimeout = NullTimeout /\ timeouts = <<>>
    /\ ev.flag <=> RebuildSucceeded

\* a run of setupNotifications has ended and none of its steps failed
RunEndedWell ==
  ev.type \in {"setupNotificationsEnded", "restartAllCronJobsEnded"} /\ ev.failed = "none"

\* C16: a selected slot id that is not in the catalog gets no timer and no
\* registry entry; the other slots of the user and the other users are
\* still scheduled.
C16_UnknownSlotSkipped ==
  RunEndedWell =>
    /\ \A jobId \in DOMAIN activeJobs : TimeInfoFound(jobId[2])
    /\ \A t \in DOMAIN tasks : TimeInfoFound(tasks[t].timeValue)
    /\ \A u \in DOMAIN store : \A s \in store[u].times :
         TimeInfoFound(s) =>
           /\ EarlyJobId(u, s) \in DOMAIN activeJobs
           /\ RunningTimers(u, s) = {activeJobs[EarlyJobId(u, s)]}

C16_Witness ==
  /\ RunEndedWell
  /\ {"u1", "u2"} \subseteq DOMAIN store
  /\ store["u1"].times = {"18:00", UnknownSlot}
  /\ store["u2"].times = {"21:00"}
  /\ DOMAIN activeJobs = {EarlyJobId("u1", "18:00"), EarlyJobId("u2", "21:00")}

\* C17: when cron.schedule raises for one user's record, setupNotifications
\* skips that record and still creates the timers of the other users.
C17_RaisingRecordSkipped ==
  (ev.type \in {"setupNotificationsEnded", "restartAllCronJobsEnded"}
     /\ ev.failed \in {"none", "schedule"}) =>
    \A u \in DOMAIN store :
      ~Raises(store, u) =>
        \A s \in ScheduledTimes(store, u) :
          /\ EarlyJobId(u, s) \in DOMAIN activeJobs
          /\ RunningTimers(u, s) = {activeJobs[EarlyJobId(u, s)]}

\* C19: setupNotifications never raises to its caller: whether a cancellation
\* raised while the registry was cleared, the read of the file failed, the
\* creation of a timer raised or the write of the file failed, the catch that
\* runs is the one of setupNotifications or of a function it called, the
\* caller observes a call that returns, and the run is over.
C19_ReconcileNeverRaises ==
  ev.type \in {"setupNotificationsEnded", "restartAllCronJobsEnded"} =>
    /\ ev.outcome = "returned"
    /\ ev.type = "restartAllCronJobsEnded" => ev.flag
    /\ NoRunInProgress

\* a run in which a cancellation raised while the registry was cleared and
\* cron.schedule raised for a record of the file has ended: the job whose
\* cancellation raised is still alive
C19_Witness ==
  /\ ev.type = "setupNotificationsEnded"
  /\ ev.cancelRaised
  /\ ev.failed = "schedule"
  /\ ev.outcome = "returned"
  /\ \E u \in DOMAIN store : Raises(store, u)
  /\ \E t \in DOMAIN tasks : tasks[t].throws

\* a call of sendNotificationToUser has ended in a delivery that failed
DeliveryFailureTypes == {"sendFailed", "channelNotFound"}

\* C18: a delivery that fails (client.channels.fetch rejects or resolves with
\* no channel, channel.send rejects after it was called) ends inside
\* sendNotificationToUser: the call returns to the callback of the timer
\* without raising and is over, the next step is not another attempt or
\* another failure of that delivery, and the step of the failure leaves the
\* registry and the tasks as they were (the timer stays registered and
\* scheduled).
C18_DeliveryFailureSwallowed ==
  /\ [](ev.type \in DeliveryFailureTypes =>
          (ev.outcome = "returned" /\ notif.pc = "idle"))
  /\ [][ /\ ev.type \in DeliveryFailureTypes =>
              ev'.type \notin DeliveryFailureTypes \cup {"channelSend"}
         /\ ev'.type \in DeliveryFailureTypes =>
              (activeJobs' = activeJobs /\ tasks' = tasks)
       ]_vars

\* channel.send was called for a timer that fired and rejected with code
\* 50013: the timer of the user is registered and running
C18_Witness ==
  /\ ev.type = "sendFailed"
  /\ ev.flag
  /\ ev.category = "missing permissions"
  /\ ev.outcome = "returned"
  /\ \E jobId \in DOMAIN activeJobs :
       /\ jobId[1] = ev.userId
       /\ tasks[activeJobs[jobId]].running

\* the fields of a record that pause and resume do not own
Selection(prefs) ==
  [times |-> prefs.times, autoApply |-> prefs.autoApply, timezone |-> prefs.timezone]

\* C20: pause followed by resume for the same user, with nothing in between,
\* leaves the selected times, autoApply and timezone as they were, leaves
\* paused false and every timer of the user running again, with no run of
\* setupNotifications and no new timer; the same holds when the timers were
\* created stopped by a run of setupNotifications while the user was paused.
C20_PauseResumeRestores ==
  /\ [](ev.type = "resumeReturned" =>
          /\ ~store[ev.userId].paused
          /\ \A s \in store[ev.userId].times :
               LiveTimers(ev.userId, s) = RunningTimers(ev.userId, s)
          /\ \A jobId \in JobsOf(ev.userId) : tasks[activeJobs[jobId]].running
          /\ ev.flag => JobsOf(ev.userId) =
                          {EarlyJobId(ev.userId, s) : s \in store[ev.userId].times}
          /\ NoRunInProgress /\ timeouts = <<>>)
  /\ [][ ev'.type \in {"pauseReturned", "resumeReturned"} =>
           /\ activeJobs' = activeJobs
           /\ DOMAIN tasks' = DOMAIN tasks
           /\ DOMAIN store' = DOMAIN store \cup {ev'.userId}
           /\ \A u \in DOMAIN store : Selection(store'[u]) = Selection(store[u])
           /\ \A u \in DOMAIN store \ {ev'.userId} : store'[u] = store[u]
       ]_vars

C20_Witness ==
  /\ ev.type = "resumeReturned"
  /\ ev.flag
  /\ store[ev.userId].times = Slots
  /\ \A s \in Slots : RunningTimers(ev.userId, s) = {activeJobs[EarlyJobId(ev.userId, s)]}

\* C21: what a command saved while a run of setupNotifications was in progress
\* is still in the file when that run has finished: the save that ends the run
\* changes no times, autoApply, paused or timezone of any record of the file.
C21_MutationSurvivesReconcile ==
  [][ ev'.type = "setupNotificationsReturned" =>
        /\ DOMAIN store \subseteq DOMAIN store'
        /\ \A u \in DOMAIN store : UserFields(store'[u]) = UserFields(store[u])
    ]_vars

\* C22: when two timezone_select handlers of different users have both loaded
\* before either saves, the file after the later save is exactly the mapping
\* that save wrote, and the record the earlier handler saved is not in it
\* (last write wins for the whole mapping).
C22_LastWriteWins ==
  ev.type = "timezoneSelected" =>
    /\ store = ev.userPrefs
    /\ \A w \in ev.overwritten :
         w \in DOMAIN store => UserFields(store[w]) = UserFields(ev.userPrefs[w])

C22_Witness ==
  /\ ev.type = "timezoneSelected"
  /\ ev.userId = "u2"
  /\ ev.overwritten = {"u1"}
  /\ store = ev.userPrefs
  /\ {"u1", "u2"} \subseteq DOMAIN store
  /\ store["u2"].timezone = "UTC"
  /\ store["u1"].timezone = DEFAULT_TIMEZONE

\* the time of day of the n-th catalog entry, in minutes after midnight
CanonicalTime(n) ==
  ParseLabel(NOTIFICATION_TIMES[n].value).hours * 60
    + ParseLabel(NOTIFICATION_TIMES[n].value).minutes

\* the time of day of a cron expression `minute hour * * *`
CronTime(cron) == cron.hour * 60 + cron.minute

\* C23: NOTIFICATION_TIMES has exactly 16 slots, 90 minutes apart, covering the
\* 24-hour day exactly once, and the recurrence rule of each slot, also the
\* one every scheduled task carries, is the slot's time minus 5 minutes
\* modulo 24 hours (23:55 for the slot 00:00).
C23_CatalogRegular ==
  /\ Len(NOTIFICATION_TIMES) = 16
  /\ Cardinality(CatalogValues) = 16
  /\ \A n \in 1..(Len(NOTIFICATION_TIMES) - 1) : CanonicalTime(n + 1) - CanonicalTime(n) = 90
  /\ CanonicalTime(1) + 24 * 60 - CanonicalTime(Len(NOTIFICATION_TIMES)) = 90
  /\ \A n \in DOMAIN NOTIFICATION_TIMES :
       /\ NOTIFICATION_TIMES[n].label = NOTIFICATION_TIMES[n].value
       /\ CronTime(NOTIFICATION_TIMES[n].earlyWarningCron) = DayMinutes(CanonicalTime(n) - 5)
  /\ \A t \in DOMAIN tasks : CronTime(tasks[t].cron) = WarningTime(tasks[t].timeValue)

C23_Witness ==
  /\ ReconcileReturned
  /\ \E t \in DOMAIN tasks :
       /\ tasks[t].timeValue = "00:00"
       /\ tasks[t].cron = [minute |-> 55, hour |-> 23]
       /\ Registered(t)
  /\ \E t \in DOMAIN tasks : tasks[t].timeValue = "22:30" /\ CronTime(tasks[t].cron) = 22 * 60 + 25

\* C24: inside setupNotifications the clearing completes without raising, so
\* the load, the rebuild and the save run: a run over a file in which some
\* user has selected times ends with a non-empty registry.
C24_ClearingLetsRebuildRun ==
  ev.type = "setupNotificationsEnded" =>
    /\ ev.failed # "clear"
    /\ (\E u \in DOMAIN store : ~Raises(store, u) /\ ScheduledTimes(store, u) # {})
         => activeJobs # EmptyMap

\* no command, interaction handler or daily pass is between its load and its save
NoHandlerInProgress == NoCmdInProgress /\ daily.pc = "idle"

\* no run of setupNotifications is in progress and none is scheduled
ReconcilesFinished == NoRunInProgress /\ timeouts = <<>>

\* C25: once every run of setupNotifications that was requested has finished,
\* every registry entry belongs to a user and a time that is among the times of
\* that user in the file: no timer built from an older snapshot survives a
\* later run.
C25_NoStaleTimerAfterReconcile ==
  (ReconcilesFinished /\ NoHandlerInProgress) =>
    \A jobId \in DOMAIN activeJobs :
      /\ jobId[1] \in DOMAIN store
      /\ jobId[2] \in store[jobId[1]].times

\* C26: whenever no command, interaction handler or run of setupNotifications
\* is in progress, every registry entry of a user is stopped if and only if
\* the paused flag of that user in the file is true.
C26_StoppedIffPaused ==
  (NoRunInProgress /\ NoHandlerInProgress) =>
    \A jobId \in DOMAIN activeJobs :
      ~tasks[activeJobs[jobId]].running <=> PausedIn(store, jobId[1])

\* C27: after a run of setupNotifications with no concurrent writer, the
\* scheduledJobs in the file of every user with times is exactly the set of
\* registry keys of that user; a user without times is skipped and the record,
\* stale scheduledJobs included, is left as it was.
C27_ScheduledJobsRebuilt ==
  /\ [](ReconcileReturned =>
          \A u \in DOMAIN store :
            store[u].times # {} =>
              /\ store[u].scheduledJobs = JobsOf(u)
              /\ JobsOf(u) = {EarlyJobId(u, s) : s \in store[u].times})
  /\ [][ ev'.type = "setupNotificationsReturned" =>
           /\ DOMAIN store' = DOMAIN store
           /\ \A u \in DOMAIN store :
                /\ UserFields(store'[u]) = UserFields(store[u])
                /\ store[u].times = {} => store'[u] = store[u]
       ]_vars

C27_Witness ==
  /\ ReconcileReturned
  /\ {"u1", "u2"} \subseteq DOMAIN store
  /\ store["u1"].times = {} /\ store["u1"].scheduledJobs = {EarlyJobId("u1", "18:00")}
  /\ JobsOf("u1") = {}
  /\ store["u2"].times = {"21:00"} /\ store["u2"].scheduledJobs = {EarlyJobId("u2", "21:00")}
  /\ JobsOf("u2") = {EarlyJobId("u2", "21:00")}
  /\ Len(hist) = 1

\* C28: at any instant at most one debounce timeout is pending, and a pending
\* one is the one setupNotificationsTimeout refers to, so that the next request
\* cancels it; also for requests made while a run started by the debounce is
\* in progress.
C28_OnePendingTimeoutReferenced ==
  /\ Len(timeouts) <= 1
  /\ \A n \in DOMAIN timeouts : setupNotificationsTimeout = timeouts[n].id

\* the timeout of the latest debounced request has not fired yet
RequestOutstanding == burst.last # NullTimeout

\* a run started by the debounce has been entered and has not read the file yet
DebounceRunEntered == \E i \in RunIds : rc[i].via = "debounce" /\ rc[i].pc = "load"

\* C29: under fairness, every debounced request of a finite burst is followed
\* by a run of setupNotifications that reads the file after the request: the
\* timeout of the last request fires, the run it starts loads.
C29_RequestEventuallyReconciled ==
  /\ RequestOutstanding ~> (~RequestOutstanding /\ DebounceRunEntered)
  /\ \A i \in RunIds : (rc[i].pc = "load") ~> (rc[i].pc = "save")

C29_Witness ==
  /\ ~RequestOutstanding
  /\ budget = MaxOps - 2
  /\ burst.runs = 1
  /\ timeouts = <<>>
  /\ \E i \in RunIds : rc[i].via = "debounce" /\ rc[i].pc = "save"

(***************************************************************************)
(* C30: setupNotificationsDebounced() returns to its caller before the     *)
(* reconcile it scheduled has started.  The step in which the commit       *)
(* button's save is done, the debounce is requested and the handler goes   *)
(* on leaves the registry, the tasks and every run as they were and        *)
(* starts no run; the file is exactly what the handler saved; the timeout  *)
(* the request created is the one the variable refers to, is pending and   *)
(* is not due yet.                                                         *)
(***************************************************************************)
C30_DebouncedReturnsBeforeReconcile ==
  /\ [][ ev'.type = "timesCommitted" =>
           /\ activeJobs' = activeJobs
           /\ tasks' = tasks
           /\ rc' = rc
           /\ hist' = hist
           /\ store' = ev'.userPrefs
       ]_vars
  /\ [](ev.type = "timesCommitted" =>
          /\ timeouts # <<>>
          /\ timeouts[Len(timeouts)].id = setupNotificationsTimeout
          /\ ~timeouts[Len(timeouts)].due)

\* u1 committed 21:00 while only the timer of the old selection 18:00 is
\* registered: the handler has gone on and no timer for 21:00 exists
C30_Witness ==
  /\ ev.type = "timesCommitted"
  /\ ev.userId = "u1"
  /\ "u1" \in DOMAIN store
  /\ store["u1"].times = {"21:00"}
  /\ store["u1"].tempTimes = NoTemp
  /\ DOMAIN activeJobs = {EarlyJobId("u1", "18:00")}
  /\ Len(timeouts) = 1
  /\ NoRunInProgress

(***************************************************************************)
(* C31: a slot-selection interaction writes only the user's tempTimes.     *)
(* The step in which its save is done leaves the registry, the tasks, the  *)
(* runs and the debounce as they were (no reconcile is requested); the     *)
(* mapping written is the mapping the handler loaded with the user's       *)
(* record created when absent and tempTimes set; and when the file still   *)
(* is what the handler loaded, the times, autoApply, paused and timezone   *)
(* of the user and every other record are unchanged.                       *)
(***************************************************************************)
C31_SelectionWritesOnlyTempTimes ==
  [][ ev'.type = "timesSelected" =>
        LET u == ev'.userId
            loaded == initUserPreferences(u, ev'.loaded)
        IN  /\ UNCHANGED <<activeJobs, tasks, rc, hist, timeouts,
                           setupNotificationsTimeout, burst>>
            /\ DOMAIN store' = DOMAIN loaded
            /\ \A w \in DOMAIN loaded \ {u} : store'[w] = loaded[w]
            /\ UserFields(store'[u]) = UserFields(loaded[u])
            /\ store'[u].scheduledJobs = loaded[u].scheduledJobs
            /\ store = ev'.loaded =>
                 /\ DOMAIN store' = DOMAIN store \cup {u}
                 /\ \A w \in DOMAIN store \ {u} : store'[w] = store[w]
                 /\ u \in DOMAIN store =>
                      /\ UserFields(store'[u]) = UserFields(store[u])
                      /\ store'[u].scheduledJobs = store[u].scheduledJobs
    ]_vars

\* u1, paused with 18:00 selected and its timer registered, has picked 21:00:
\* tempTimes is {21:00}, times is still {18:00}, the registry still holds 18:00
\* and no timeout is pending
C31_Witness ==
  /\ ev.type = "timesSelected"
  /\ ev.userId = "u1"
  /\ store = ev.userPrefs
  /\ "u1" \in DOMAIN ev.loaded
  /\ store["u1"].tempTimes = {"21:00"}
  /\ store["u1"].times = {"18:00"}
  /\ store["u1"].paused
  /\ ev.loaded["u1"].tempTimes = NoTemp
  /\ DOMAIN activeJobs = {EarlyJobId("u1", "18:00")}
  /\ timeouts = <<>>
  /\ setupNotificationsTimeout = NullTimeout

(***************************************************************************)
(* C32: a commit (auto_apply_yes / auto_apply_no) of a user with non-empty *)
(* tempTimes writes the loaded mapping with the user's times set to the    *)
(* tempTimes, tempTimes removed and autoApply set to the button's value,   *)
(* and requests a debounced reconcile: the timeout the variable referred   *)
(* to is no longer pending and a new one, referenced and not yet due, is   *)
(* pending after the others.  A commit of                                  *)
(* a user whose tempTimes is absent or empty leaves the file, the          *)
(* registry, the tasks and the debounce as they were.                      *)
(***************************************************************************)
C32_CommitMovesTempTimes ==
  [][ /\ ev'.type = "timesCommitted" =>
           LET u == ev'.userId
               loaded == ev'.loaded
           IN  /\ u \in DOMAIN loaded
               /\ loaded[u].tempTimes # NoTemp /\ loaded[u].tempTimes # {}
               /\ store' = [loaded EXCEPT ![u].times = loaded[u].tempTimes,
                                          ![u].tempTimes = NoTemp,
                                          ![u].autoApply = ev'.autoApply]
               /\ timeouts' # <<>>
               /\ timeouts'[Len(timeouts')] =
                    [id |-> setupNotificationsTimeout', due |-> FALSE]
               /\ SubSeq(timeouts', 1, Len(timeouts') - 1) =
                    SelectSeq(timeouts, LAMBDA x : x.id # setupNotificationsTimeout)
               /\ UNCHANGED <<activeJobs, tasks, rc>>
      /\ ev'.type = "noTimesSelected" =>
           /\ NoTempTimes(initUserPreferences(ev'.userId, store)[ev'.userId])
           /\ UNCHANGED <<store, activeJobs, tasks, rc, timeouts,
                          setupNotificationsTimeout, burst>>
    ]_vars

\* u1, who had 18:00 and picked 21:00, pressed "Save as default": the file has
\* times {21:00}, autoApply true and no tempTimes for u1, and one timeout is
\* pending
C32_Witness ==
  /\ ev.type = "timesCommitted"
  /\ ev.userId = "u1"
  /\ ev.autoApply
  /\ ev.loaded["u1"].times = {"18:00"}
  /\ ev.loaded["u1"].tempTimes = {"21:00"}
  /\ ~ev.loaded["u1"].autoApply
  /\ store["u1"].times = {"21:00"}
  /\ store["u1"].autoApply
  /\ store["u1"].tempTimes = NoTemp
  /\ Len(timeouts) = 1
  /\ setupNotificationsTimeout = timeouts[1].id

(***************************************************************************)
(* C33: applyAutoPreferences saves the mapping and requests a debounced    *)
(* reconcile exactly when the reset changed a record of the mapping it     *)
(* loaded: at its return, it has saved (flag) if and only if the mapping   *)
(* after the loop differs from the mapping loaded.                         *)
(***************************************************************************)
C33_SavesOnlyWhenChanged ==
  ev.type = "applyAutoReturned" =>
    (ev.flag <=> AutoAppliedPrefs(ev.userPrefs) # ev.userPrefs)

(***************************************************************************)
(* C34: after applyAutoPreferences and the reconcile it triggers have      *)
(* completed, the registry holds no entry of a user whose autoApply is     *)
(* false and exactly one entry per selected slot of a user whose           *)
(* autoApply is true; and a reset that saved is always followed by the     *)
(* completion of the reconcile it requested.  Nothing in SpecReset changes *)
(* autoApply, so its value in the file is the value it had at the reset.   *)
(***************************************************************************)
ResetCompleted ==
  /\ budget < MaxOps
  /\ daily.pc = "idle"
  /\ ReconcilesFinished

C34_RegistryAfterDailyReset ==
  /\ [](ResetCompleted =>
          /\ \A jobId \in DOMAIN activeJobs : jobId[1] \in DOMAIN store
          /\ \A u \in DOMAIN store :
               /\ ~store[u].autoApply => JobsOf(u) = {}
               /\ store[u].autoApply =>
                    JobsOf(u) = {EarlyJobId(u, s) : s \in store[u].times})
  /\ (daily.pc = "save") ~> ResetCompleted

\* the reset and its reconcile are over: u1 (autoApply) still has the timer of
\* 18:00, u2 (no autoApply) had 21:00 registered and has no times and no timer
C34_Witness ==
  /\ ResetCompleted
  /\ budget = MaxOps - 1
  /\ Len(hist) = 1
  /\ {"u1", "u2"} \subseteq DOMAIN store
  /\ store["u1"].autoApply /\ store["u1"].times = {"18:00"}
  /\ ~store["u2"].autoApply /\ store["u2"].times = {}
  /\ store["u2"].scheduledJobs = {EarlyJobId("u2", "21:00")}
  /\ DOMAIN activeJobs = {EarlyJobId("u1", "18:00")}

(***************************************************************************)
(* C35: a notification is delivered for a user and a slot only at a moment *)
(* when the file holds the slot among the user's times: at a channel.send  *)
(* of a task for (userId, label) the user is in the file and the slot with *)
(* that label is in the user's times.  The sends of the test command are   *)
(* left out: they are asked for whatever the file holds.                   *)
(***************************************************************************)
C35_DeliveredOnlyForSelectedSlot ==
  (ev.type = "channelSend" /\ ~ev.flag) =>
    /\ ev.userId \in DOMAIN store
    /\ \E s \in store[ev.userId].times : TimeInfo(s).label = ev.timeValue

(***************************************************************************)
(* C36: when the load of setupNotifications fails (loadUserPreferences     *)
(* returns {}), the file is the same after the run as before: the step in  *)
(* which such a run ends leaves the file unchanged.                        *)
(***************************************************************************)
C36_FailedLoadKeepsFile ==
  [][ (/\ ev'.type \in {"setupNotificationsEnded", "restartAllCronJobsEnded"}
       /\ ev'.failed = "load")
      => store' = store ]_vars

(***************************************************************************)
(* C37: with no store failure and no concurrent writer, setupNotifications *)
(* changes no field of a record of the file other than scheduledJobs: the  *)
(* step in which it saves and returns keeps the users of the file and, for *)
(* each, times, tempTimes, autoApply, paused and timezone.                 *)
(***************************************************************************)
OtherFields(prefs) == [prefs EXCEPT !.scheduledJobs = {}]

C37_ReconcileWritesOnlyScheduledJobs ==
  [][ ev'.type = "setupNotificationsReturned" =>
        /\ DOMAIN store' = DOMAIN store
        /\ \A u \in DOMAIN store : OtherFields(store'[u]) = OtherFields(store[u])
    ]_vars

\* a run has returned: u1's scheduledJobs was rebuilt from {21:00} to the job
\* of 18:00 and the other fields, tempTimes included, are as they were set
C37_Witness ==
  /\ ev.type = "setupNotificationsReturned"
  /\ Len(hist) = 1
  /\ "u1" \in DOMAIN store
  /\ store["u1"].times = {"18:00"}
  /\ store["u1"].tempTimes = {"21:00"}
  /\ store["u1"].autoApply /\ store["u1"].paused
  /\ store["u1"].timezone = "UTC"
  /\ store["u1"].scheduledJobs = {EarlyJobId("u1", "18:00")}

(***************************************************************************)
(* C38: the admin clear, once confirmed, removes no user key from the      *)
(* mapping, and afterwards every user who had times in the mapping the     *)
(* command loaded has no times, autoApply false and paused false in the    *)
(* file and no entry in the registry: so it is in the step in which the    *)
(* command's save is done.                                                 *)
(***************************************************************************)
C38_AdminClearResetsRecords ==
  [][ ev'.type = "adminCleared" =>
        /\ DOMAIN store \subseteq DOMAIN store'
        /\ \A u \in DOMAIN ev'.loaded :
             ev'.loaded[u].times # {} =>
               /\ u \in DOMAIN store'
               /\ store'[u].times = {}
               /\ ~store'[u].autoApply
               /\ ~store'[u].paused
               /\ \A jobId \in DOMAIN activeJobs' : jobId[1] # u
    ]_vars

====
